---- MODULE Spec2Model ----
(***************************************************************************)
(* Model of CirclesUsersService                                            *)
(* (packages/plugin-discover-connection/src/services/circlesUsers.ts):     *)
(* the paginated ingestion of registration rows from the Circles RPC, the  *)
(* enrichment with trust counts, and the cache kept under the keys         *)
(* 'circles-users-data', 'circles-users-last-update' and                   *)
(* 'circles-users-last-cursor'.                                            *)
(*                                                                         *)
(* The remote Avatars table is an append-only event stream: the k-th event *)
(* sits at position PositionOf(k), which grows with k in the               *)
(* (blockNumber, transactionIndex, logIndex) order.  A run is split into   *)
(* its entry (refreshCirclesUsersCache and the reads it makes), one action *)
(* per iteration of the paging loop, and one action for everything after   *)
(* the loop (merge, cache writes, return value).                           *)
(***************************************************************************)
EXTENDS Integers, Sequences, FiniteSets, TLC

\* ------------------------------------------------------------------ bounds
MaxEvents == 2
MaxRuns == 2
MaxTime == 1
MaxBatch == 2
MaxCap == 2
MaxTrustRows == 2
MaxQuotaTime == 4
MaxProposals == 4
MaxCoord == 2
MaxMergeLen == 2
MaxStamp == 2
MaxMatches == 3

\* ------------------------------------------------------- program constants
VERIFICATION_THRESHOLD == 3
maxConsecutiveEmpty == 3
\* `maxUsers = Infinity`: the cap that is never reached
Infinity == -1
\* 24 hours; the clock of the model counts in ticks of this length
UPDATE_INTERVAL_MS == 1
\* `oneDayMs` of getQuotaInfo; the clock of the quota service counts in
\* ticks of 12 hours
oneDayMs == 2
\* `count: 50` of the getMemories calls on the 'matches' table, scaled to
\* the tables of the model
MatchesCount == 2

\* An absent value (JavaScript undefined / a key that is not in the cache)
Undefined == [undefined |-> TRUE]

\* ------------------------------------------------------------ the avatars
Avatars == {"0xaa", "0xAA", "0xbb"}

\* String.prototype.toLowerCase on the avatars of the model
toLowerCase(a) ==
  IF a = "0xAA" THEN "0xaa" ELSE IF a = "0xBB" THEN "0xbb" ELSE a

\* ---------------------------------------------------- the remote stream
\* What a row of the Avatars table registers: a human (the rows the type
\* filter keeps) or a group.
EventKinds ==
  [avatar : Avatars, type : {"CrcV2_RegisterHuman"}]
    \cup [avatar : {"0xbb"}, type : {"CrcV2_RegisterGroup"}]

\* The ledger position of the k-th event: two logs per transaction, two
\* transactions per block, so the position grows lexicographically with k.
\* The first event is the last of its block: (0, 1, 1), (1, 0, 0), (1, 0, 1).
PositionOf(k) ==
  [blockNumber |-> (k + 2) \div 4,
   transactionIndex |-> ((k + 2) \div 2) % 2,
   logIndex |-> (k + 2) % 2]

\* The row of the Avatars table for the k-th event of stream s
RowOf(s, k) ==
  [blockNumber |-> PositionOf(k).blockNumber,
   transactionIndex |-> PositionOf(k).transactionIndex,
   logIndex |-> PositionOf(k).logIndex,
   avatar |-> s[k].avatar,
   type |-> s[k].type,
   timestamp |-> k]

RemoteRows(s) == {RowOf(s, k) : k \in 1..Len(s)}

\* The lexicographic order of the ledger on (blockNumber, transactionIndex,
\* logIndex), as the remote orders rows (Order: DESC on the three columns).
PosLess(a, b) ==
  \/ a.blockNumber < b.blockNumber
  \/ /\ a.blockNumber = b.blockNumber
     /\ \/ a.transactionIndex < b.transactionIndex
        \/ /\ a.transactionIndex = b.transactionIndex
           /\ a.logIndex < b.logIndex

PosOf(r) ==
  [blockNumber |-> r.blockNumber, transactionIndex |-> r.transactionIndex,
   logIndex |-> r.logIndex]

\* A cursor filter whose last predicate compares logIndex with <= instead
\* of LessThan: it admits the row at the cursor's own position
CursorFilterInclusive(row, cursor) ==
  \/ row.blockNumber < cursor.blockNumber
  \/ /\ row.blockNumber = cursor.blockNumber
     /\ row.transactionIndex < cursor.transactionIndex
  \/ /\ row.blockNumber = cursor.blockNumber
     /\ row.transactionIndex = cursor.transactionIndex
     /\ row.logIndex <= cursor.logIndex

\* A cursor filter whose third predicate does not ask for the same block:
\* it admits rows of later blocks
CursorFilterAnyBlock(row, cursor) ==
  \/ row.blockNumber < cursor.blockNumber
  \/ /\ row.blockNumber = cursor.blockNumber
     /\ row.transactionIndex < cursor.transactionIndex
  \/ /\ row.transactionIndex = cursor.transactionIndex
     /\ row.logIndex < cursor.logIndex

\* ----------------------------------------------- the paginated query
\* The cursor-based filter pushed at lines 259-315: an Or of three
\* predicates over the row's columns.
CursorFilter(row, cursor) ==
  \/ row.blockNumber < cursor.blockNumber
  \/ /\ row.blockNumber = cursor.blockNumber
     /\ row.transactionIndex < cursor.transactionIndex
  \/ /\ row.blockNumber = cursor.blockNumber
     /\ row.transactionIndex = cursor.transactionIndex
     /\ row.logIndex < cursor.logIndex

\* The Filter list of the request: the type filter, and the cursor filter
\* when a cursor is given (the list is a conjunction).
QueryFilter(row, cursor) ==
  /\ row.type = "CrcV2_RegisterHuman"
  /\ (cursor # Undefined => CursorFilter(row, cursor))

RECURSIVE SortDesc(_)
\* The rows of a set, most recent first
SortDesc(S) ==
  IF S = {} THEN <<>>
  ELSE LET top == CHOOSE r \in S : \A q \in S \ {r} : PosLess(PosOf(q), PosOf(r))
       IN <<top>> \o SortDesc(S \ {top})

Take(s, n) == SubSeq(s, 1, IF n < Len(s) THEN n ELSE Len(s))

\* The rows the RPC returns for circles_query with Filter, Order and Limit
QueryRows(s, limit, cursor) ==
  Take(SortDesc({r \in RemoteRows(s) : QueryFilter(r, cursor)}), limit)

\* ------------------------------------------------------- getTrustCounts
\* A response of the TrustRelations query: the request threw (ok = FALSE),
\* or it returned columns (Undefined when the result carries none) and
\* rows.  A row is a positional array of cells (array = TRUE) or a keyed
\* object, which has no numeric index.
FailedResponse == [ok |-> FALSE, columns |-> <<>>, rows |-> <<>>]

TrustResponse(columns, rows) == [ok |-> TRUE, columns |-> columns, rows |-> rows]

ArrayRow(cells) == [array |-> TRUE, cells |-> cells]

KeyedRow(truster, trustee) ==
  [array |-> FALSE, truster |-> truster, trustee |-> trustee]

\* Array.prototype.indexOf: the 0-based index of the first match, or -1
IndexOf(columns, name) ==
  IF \E i \in 1..Len(columns) : columns[i] = name
  THEN (CHOOSE i \in 1..Len(columns) :
          columns[i] = name /\ \A j \in 1..(i - 1) : columns[j] # name) - 1
  ELSE -1

\* `x || d` on numbers: 0 is falsy
OrDefault(x, d) == IF x = 0 THEN d ELSE x

\* row[i] in JavaScript: undefined outside the array and on keyed objects
Cell(row, i) ==
  IF row.array /\ i >= 0 /\ i < Len(row.cells) THEN row.cells[i + 1] ELSE "undefined"

\* `columns?.indexOf(name) || d`
ColumnIndex(columns, name, d) ==
  IF columns = Undefined THEN d ELSE OrDefault(IndexOf(columns, name), d)

\* The self-trust filter of lines 187-191 and 218-222
NotSelfTrust(resp, row) ==
  LET trusterIndex == ColumnIndex(resp.columns, "truster", 0)
      trusteeIndex == ColumnIndex(resp.columns, "trustee", 1)
  IN Cell(row, trusterIndex) # Cell(row, trusteeIndex)

ValidTrusts(resp) == SelectSeq(resp.rows, LAMBDA row : NotSelfTrust(resp, row))

\* Trust counts that keep the count of the query that returned when the
\* other one threw
getTrustCountsPartial(incomingResponse, outgoingResponse) ==
  [incoming |-> IF incomingResponse.ok THEN Len(ValidTrusts(incomingResponse)) ELSE 0,
   outgoing |-> IF outgoingResponse.ok THEN Len(ValidTrusts(outgoingResponse)) ELSE 0]

\* getTrustCounts: the two filtered row counts, or {0, 0} when a request threw
getTrustCounts(incomingResponse, outgoingResponse) ==
  IF incomingResponse.ok /\ outgoingResponse.ok
  THEN [incoming |-> Len(ValidTrusts(incomingResponse)),
        outgoing |-> Len(ValidTrusts(outgoingResponse))]
  ELSE [incoming |-> 0, outgoing |-> 0]

TrustColumns == <<"truster", "trustee", "timestamp">>

\* n trust rows towards (incoming) or from (outgoing) avatar a
RECURSIVE TrustRows(_, _, _)
TrustRows(a, n, incoming) ==
  IF n = 0 THEN <<>>
  ELSE Append(TrustRows(a, n - 1, incoming),
              IF incoming THEN ArrayRow(<<"0xt", a, "t">>)
              ELSE ArrayRow(<<a, "0xt", "t">>))

SelfTrustRow(a) == ArrayRow(<<a, a, "t">>)

\* What the remote may answer to the two trust queries for avatar a: a
\* failure of the first query, rows just below or at the verification
\* threshold, with a self-trust row among them, or a failure of the second
\* query only.
TrustScenarios(a) ==
  { [incoming |-> FailedResponse, outgoing |-> FailedResponse],
    [incoming |-> TrustResponse(TrustColumns,
                    TrustRows(a, VERIFICATION_THRESHOLD - 1, TRUE) \o <<SelfTrustRow(a)>>),
     outgoing |-> TrustResponse(TrustColumns, <<SelfTrustRow(a)>>)],
    [incoming |-> TrustResponse(TrustColumns, TrustRows(a, VERIFICATION_THRESHOLD, TRUE)),
     outgoing |-> TrustResponse(TrustColumns, TrustRows(a, 1, FALSE))],
    [incoming |-> TrustResponse(TrustColumns, TrustRows(a, VERIFICATION_THRESHOLD, TRUE)),
     outgoing |-> FailedResponse] }

\* ----------------------------------- queryRegisteredUsersWithTrustData
\* The simplified user object built at lines 369-376
CirclesUser(row, trustCounts, clock) ==
  [avatar |-> row.avatar,
   incomingTrustCount |-> trustCounts.incoming,
   outgoingTrustCount |-> trustCounts.outgoing,
   isVerified |-> trustCounts.incoming >= VERIFICATION_THRESHOLD,
   status |-> IF trustCounts.incoming >= VERIFICATION_THRESHOLD
              THEN "verified" ELSE "registered",
   timestamp |-> IF row.timestamp # 0 THEN row.timestamp ELSE clock]

\* The cursor taken from a row at lines 381-385
CursorOf(row) == PosOf(row)

\* A page result that never gives a next cursor, as if every page were the
\* last one
QueryResultLastPage(rows, limit, trust, clock) ==
  [users |-> [i \in 1..Len(rows) |->
                CirclesUser(rows[i],
                            getTrustCounts(trust[i].incoming, trust[i].outgoing),
                            clock)],
   nextCursor |-> Undefined]

\* A page result that gives the position of its last row as next cursor
\* whenever it has rows, also when they are fewer than the limit
QueryResultAlwaysCursor(rows, limit, trust, clock) ==
  IF Len(rows) = 0
  THEN [users |-> <<>>, nextCursor |-> Undefined]
  ELSE [users |-> [i \in 1..Len(rows) |->
                     CirclesUser(rows[i],
                                 getTrustCounts(trust[i].incoming, trust[i].outgoing),
                                 clock)],
        nextCursor |-> CursorOf(rows[Len(rows)])]

\* The value returned at lines 340-343 and 401-404 for the rows of a page
\* and the trust answers drawn for them
QueryResult(rows, limit, trust, clock) ==
  IF Len(rows) = 0
  THEN [users |-> <<>>, nextCursor |-> Undefined]
  ELSE [users |-> [i \in 1..Len(rows) |->
                     CirclesUser(rows[i],
                                 getTrustCounts(trust[i].incoming, trust[i].outgoing),
                                 clock)],
        nextCursor |-> IF Len(rows) = limit THEN CursorOf(rows[Len(rows)])
                       ELSE Undefined]

\* The trust answers that can come back for the rows of a page; a failed
\* trust query is among them only when trustFaults allows it
RECURSIVE TrustChoices(_, _)
TrustChoices(rows, trustFaults) ==
  IF Len(rows) = 0 THEN {<<>>}
  ELSE LET last == rows[Len(rows)]
           answers == {t \in TrustScenarios(last.avatar) :
                         (t.incoming.ok /\ t.outgoing.ok) \/ trustFaults}
       IN {Append(front, t) :
             front \in TrustChoices(SubSeq(rows, 1, Len(rows) - 1), trustFaults),
             t \in answers}

\* ---------------------------------------------------------------- state
VARIABLES
  remote,       \* the events of the remote Avatars table, oldest first
  cache,        \* the runtime cache: one field per key
  now,          \* Date.now(), in ticks
  run,          \* per caller: the local variables of its refresh run
  runsStarted,  \* how many refresh calls were made
  cursorStoredAt, \* history: the length of the stream when the cursor was stored
  call,         \* the last call of another method: its arguments and return value
  quotas,       \* ProposalQuotaService: its config and the 'proposal_quotas' table
  memories      \* the runtime's 'matches' and 'circles_verification' tables

vars == <<remote, cache, now, run, runsStarted, cursorStoredAt, call, quotas,
          memories>>

\* No call of another method since the last refresh began
NoCall == [op |-> "none", arg |-> Undefined, result |-> Undefined]

\* ------------------------------------------- ProposalQuotaService: data
\* The users whose proposals are counted
Users == {"u1", "u2"}

\* The config the constructor sets when it is given none (lines 30-33)
DefaultConfig == [nonMemberTotalLimit |-> 3, memberDailyLimit |-> 1]

\* A service just constructed with a config, over an empty table.  Besides
\* the config and the records of the table, kept for the properties: for
\* each user the outcome of the last canSendProposal when no proposal was
\* recorded since ("none", or the class it returned true for), and the
\* classes the user has recorded proposals as.
QuotaStart(config) ==
  [config |-> config,
   records |-> [u \in Users |-> Undefined],
   allowed |-> [u \in Users |-> "none"],
   recordedAs |-> [u \in Users |-> {}]]

\* ------------------------------------------- the runtime's memory tables
\* No handler of the match flow has run yet
NoHandled == [op |-> "none", entityId |-> "none", success |-> FALSE, updated |-> 0]

\* The tables before any match or verification record is stored
NoMemories ==
  [matches |-> <<>>,
   verification |-> [u \in Users |-> Undefined],
   handled |-> NoHandled]

\* The callers of the service: runs are serialized by the caller (spec
\* section 5), so there is one.
Callers == {1}

NoResult ==
  [returned |-> FALSE, success |-> FALSE, count |-> 0, mode |-> "none",
   hasCounts |-> FALSE, newUsers |-> 0, updatedUsers |-> 0, error |-> FALSE]

\* The locals of a run (pc to existingUsers, result), and below them what
\* the run has seen so far, kept for the properties: the snapshot in the
\* cache when it began, the cursor it began with, the users its queries
\* returned, its last query, whether a query returned or threw, how many
\* threw in a row (counted up to the tolerance), what ended its loop,
\* whether it is the first refresh after a clearUpdateCursor, and when it
\* returned.  requested is the mode argument of the call.  overlapped says
\* that another run was under way when this one began, writeFailure which
\* of its cache writes threw, written the users of the snapshot it wrote,
\* cursorReadFailed and autoSnapshotReadFailed that its read of the cursor
\* or the snapshot read of mode 'auto' threw.
IdleRun ==
  [pc |-> "idle", mode |-> "none", viaIncremental |-> FALSE,
   requested |-> "none", batchSize |-> 0, maxUsers |-> 0,
   cursor |-> Undefined, hasMoreData |-> FALSE, consecutiveEmptyBatches |-> 0,
   users |-> <<>>, existingUsers |-> <<>>,
   result |-> NoResult,
   preData |-> Undefined, startCursor |-> Undefined,
   snapshotReadFailed |-> FALSE,
   observed |-> <<>>, lastQuery |-> Undefined,
   anyPageOk |-> FALSE, anyPageThrew |-> FALSE, consecutiveFailures |-> 0,
   endReason |-> "none", afterClear |-> FALSE, returnedAt |-> 0,
   overlapped |-> FALSE, writeFailure |-> "none", written |-> <<>>,
   cursorReadFailed |-> FALSE, autoSnapshotReadFailed |-> FALSE]

Init ==
  /\ remote = <<>>
  /\ cache = [data |-> Undefined, lastUpdate |-> Undefined, lastCursor |-> Undefined]
  /\ now = 0
  /\ run = [p \in Callers |-> IdleRun]
  /\ runsStarted = 0
  /\ memories = NoMemories
  /\ cursorStoredAt = 0
  /\ call = NoCall
  /\ quotas = QuotaStart(DefaultConfig)

\* ------------------------------------------------------ the environment
\* A registration lands on the ledger, after every event already there
\* (registrations are taken to land between runs)
RemoteRegister ==
  /\ Len(remote) < MaxEvents
  /\ \A p \in DOMAIN run : run[p].pc \in {"idle", "done"}
  /\ \E e \in EventKinds : remote' = Append(remote, e)
  /\ UNCHANGED <<memories, quotas, cache, now, run, runsStarted, cursorStoredAt, call>>

\* Time passes between runs
Tick ==
  /\ now < MaxTime
  /\ \A p \in DOMAIN run : run[p].pc \in {"idle", "done"}
  /\ now' = now + 1
  /\ UNCHANGED <<memories, quotas, remote, cache, run, runsStarted, cursorStoredAt, call>>

\* ------------------------------------------------------------ the reads
\* getCachedCirclesUsers: the users of the snapshot; [] when there is none
\* or when the read throws
getCachedCirclesUsers(c, readOk) ==
  IF readOk /\ c.data # Undefined THEN c.data.users ELSE <<>>

\* A starting cursor that is always absent: the incremental run pages
\* from the beginning of the stream
StartingCursorFromBeginning(lastCursor) == Undefined

\* The PaginationCursor built from the stored cursor at lines 447-453
StartingCursor(lastCursor) ==
  IF lastCursor # Undefined
  THEN [blockNumber |-> lastCursor.blockNumber,
        transactionIndex |-> lastCursor.transactionIndex,
        logIndex |-> lastCursor.logIndex]
  ELSE Undefined

\* A choice of mode that looks at the snapshot only, not at the cursor
AutoModeIgnoringCursor(c, usersReadOk) ==
  IF Len(getCachedCirclesUsers(c, usersReadOk)) > 0 THEN "incremental" ELSE "full"

\* mode 'auto' at lines 814-823, given that the cursor read did not throw
AutoMode(c, usersReadOk) ==
  IF c.lastCursor # Undefined /\ Len(getCachedCirclesUsers(c, usersReadOk)) > 0
  THEN "incremental" ELSE "full"

\* The mode refreshCirclesUsersCache goes on with
ResolvedMode(mode, c, usersReadOk) ==
  IF mode = "auto" THEN AutoMode(c, usersReadOk) ELSE mode

\* The fall back to a full fetch at line 433
FallsBackToFull(c, usersReadOk) ==
  c.lastCursor = Undefined /\ Len(getCachedCirclesUsers(c, usersReadOk)) = 0

\* The classes of faults a specification may let happen besides a failing
\* page query: a cache read that throws, a cache write that throws, a
\* trust query that throws: "read", "write", "trust"

\* The outcomes of a cache read: TRUE when it returns
ReadOutcomes(faults) == IF "read" \in faults THEN BOOLEAN ELSE {TRUE}

BatchSizes == 1..MaxBatch
Caps == (1..MaxCap) \cup {Infinity}
Modes == {"full", "incremental", "auto"}

\* What a starting run records of the state it starts in
Begun(mode, batchSize, maxUsers) ==
  [IdleRun EXCEPT !.mode = mode, !.requested = mode,
                  !.batchSize = batchSize, !.maxUsers = maxUsers,
                  !.preData = cache.data,
                  !.afterClear = (call.op = "clearUpdateCursor"),
                  !.overlapped =
                     \E q \in DOMAIN run : run[q].pc \in {"full", "incremental"}]

\* A run that has returned: its locals are gone; what stays is the return
\* value and, for the properties, what ended its loop, what it wrote and
\* which of its reads and writes threw
Returned(r, result) ==
  [IdleRun EXCEPT !.pc = "done", !.result = result, !.endReason = r.endReason,
                  !.returnedAt = now, !.overlapped = r.overlapped,
                  !.writeFailure = r.writeFailure, !.written = r.written,
                  !.cursorReadFailed = r.cursorReadFailed,
                  !.autoSnapshotReadFailed = r.autoSnapshotReadFailed]

CanStart(p) ==
  /\ run[p].pc \in {"idle", "done"}
  /\ runsStarted < MaxRuns

\* refreshCirclesUsersCache whose read of 'circles-users-last-cursor' throws:
\* in mode 'auto' at line 816 (caught at 844), or in
\* fetchAndCacheCirclesUsersIncremental at line 428 (caught at 544)
RefreshReadThrows(p) ==
  /\ CanStart(p)
  /\ \E mode \in Modes, batchSize \in BatchSizes, maxUsers \in Caps,
        autoThrows \in BOOLEAN, autoUsersReadOk \in BOOLEAN :
       /\ autoThrows => mode = "auto"
       /\ ~autoThrows => ResolvedMode(mode, cache, autoUsersReadOk) = "incremental"
       /\ run' = [run EXCEPT ![p] =
            Returned([Begun(mode, batchSize, maxUsers) EXCEPT
                        !.mode = IF autoThrows THEN "unknown" ELSE "incremental",
                        !.cursorReadFailed = TRUE,
                        !.autoSnapshotReadFailed =
                           (~autoThrows /\ mode = "auto" /\ ~autoUsersReadOk)],
                     [NoResult EXCEPT
                        !.returned = TRUE, !.success = FALSE, !.count = 0,
                        !.mode = IF autoThrows THEN "unknown" ELSE "incremental",
                        !.hasCounts = ~autoThrows, !.error = TRUE])]
  /\ runsStarted' = runsStarted + 1
  /\ call' = NoCall
  /\ UNCHANGED <<memories, quotas, remote, cache, now, cursorStoredAt>>

\* refreshCirclesUsersCache entering fetchAndCacheCirclesUsers: directly
\* (line 836), or through the fall back of the incremental fetch (line 437)
RefreshStartsFull(p, faults) ==
  /\ CanStart(p)
  /\ \E mode \in Modes, batchSize \in BatchSizes, maxUsers \in Caps,
        autoUsersReadOk \in ReadOutcomes(faults), usersReadOk \in ReadOutcomes(faults) :
       LET resolved == ResolvedMode(mode, cache, autoUsersReadOk)
       IN /\ resolved = "incremental" => FallsBackToFull(cache, usersReadOk)
          /\ run' = [run EXCEPT ![p] =
               [Begun(mode, batchSize, maxUsers) EXCEPT
                  !.pc = "full", !.mode = resolved,
                  !.viaIncremental = (resolved = "incremental"),
                  !.hasMoreData = TRUE,
                  !.snapshotReadFailed =
                     (resolved = "incremental" /\ ~usersReadOk),
                  !.autoSnapshotReadFailed =
                     (mode = "auto" /\ ~autoUsersReadOk)]]
  /\ runsStarted' = runsStarted + 1
  /\ call' = NoCall
  /\ UNCHANGED <<memories, quotas, remote, cache, now, cursorStoredAt>>

\* refreshCirclesUsersCache entering the paging loop of
\* fetchAndCacheCirclesUsersIncremental (lines 447-463)
RefreshStartsIncremental(p, faults) ==
  /\ CanStart(p)
  /\ \E mode \in Modes, batchSize \in BatchSizes, maxUsers \in Caps,
        autoUsersReadOk \in ReadOutcomes(faults), usersReadOk \in ReadOutcomes(faults) :
       /\ ResolvedMode(mode, cache, autoUsersReadOk) = "incremental"
       /\ ~FallsBackToFull(cache, usersReadOk)
       /\ run' = [run EXCEPT ![p] =
            [Begun(mode, batchSize, maxUsers) EXCEPT
               !.pc = "incremental", !.mode = "incremental",
               !.cursor = StartingCursor(cache.lastCursor),
               !.startCursor = StartingCursor(cache.lastCursor),
               !.existingUsers = getCachedCirclesUsers(cache, usersReadOk),
               !.hasMoreData = TRUE,
               !.snapshotReadFailed = ~usersReadOk,
               !.autoSnapshotReadFailed =
                  (mode = "auto" /\ ~autoUsersReadOk)]]
  /\ runsStarted' = runsStarted + 1
  /\ call' = NoCall
  /\ UNCHANGED <<memories, quotas, remote, cache, now, cursorStoredAt>>

\* `n < cap` on JavaScript numbers, where cap may be Infinity
Below(n, cap) == cap = Infinity \/ n < cap

\* ------------------------------------------------- the full fetch loop
\* The loop condition at line 644
FullLoopCondition(r) ==
  r.hasMoreData /\ (r.maxUsers = Infinity \/ Len(r.users) < r.maxUsers)

\* Whether the sequence holds a user with exactly this avatar
\* (`existing.avatar === user.avatar`)
HasAvatar(users, avatar) == \E i \in 1..Len(users) : users[i].avatar = avatar

\* The deduplication at lines 665-667: the users of the page whose avatar
\* is not among those accumulated before the page
NotYetCollected(users, collected) ==
  SelectSeq(users, LAMBDA user : ~HasAvatar(collected, user.avatar))

\* What the run remembers of a query that returned: the cursor it was
\* made with, the positions of its rows, the next cursor and the users it
\* gave, and for which rows a trust query failed
Queried(r, cursor, rows, trust, result) ==
  [r EXCEPT !.observed = r.observed \o result.users,
            !.lastQuery = [cursor |-> cursor,
                           rows |-> [i \in 1..Len(rows) |-> PosOf(rows[i])],
                           nextCursor |-> result.nextCursor,
                           users |-> result.users,
                           failed |-> [i \in 1..Len(rows) |->
                                         ~(trust[i].incoming.ok /\ trust[i].outgoing.ok)]],
            !.anyPageOk = TRUE,
            !.consecutiveFailures = 0]

\* The try block of one iteration of the full fetch (lines 646-696)
FullIteration(r, result) ==
  LET users == result.users
      empty == Len(users) = 0
      consecutive == IF empty THEN r.consecutiveEmptyBatches + 1 ELSE 0
      allUsers == IF empty THEN r.users
                  ELSE r.users \o NotYetCollected(users, r.users)
      stopsEmpty == empty /\ consecutive >= maxConsecutiveEmpty
      stopsEnd == ~empty /\ result.nextCursor = Undefined
      stopsCap == r.maxUsers # Infinity /\ Len(allUsers) >= r.maxUsers
  IN [r EXCEPT
        !.consecutiveEmptyBatches = consecutive,
        !.users = allUsers,
        !.cursor = IF ~empty /\ result.nextCursor # Undefined
                   THEN result.nextCursor ELSE r.cursor,
        !.hasMoreData = ~(stopsEmpty \/ stopsEnd \/ stopsCap),
        !.endReason = IF stopsEmpty THEN "empty"
                      ELSE IF stopsEnd THEN "end"
                      ELSE IF stopsCap THEN "cap" ELSE r.endReason]

\* A catch block that clears the counter of consecutive empty batches
\* instead of incrementing it, and so never ends the loop
IterationThrowsResetting(r) ==
  [r EXCEPT
     !.consecutiveEmptyBatches = 0,
     !.hasMoreData = TRUE,
     !.anyPageThrew = TRUE,
     !.consecutiveFailures = IF r.consecutiveFailures < maxConsecutiveEmpty
                             THEN r.consecutiveFailures + 1
                             ELSE r.consecutiveFailures]

\* A catch block that moves the cursor past the page whose query threw, to
\* the position of the last row that page would have given
IterationThrowsAdvancing(r) ==
  LET rows == QueryRows(remote, r.batchSize, r.cursor)
  IN [r EXCEPT
        !.cursor = IF Len(rows) > 0 THEN CursorOf(rows[Len(rows)]) ELSE r.cursor,
        !.consecutiveEmptyBatches = r.consecutiveEmptyBatches + 1,
        !.hasMoreData = r.consecutiveEmptyBatches + 1 < maxConsecutiveEmpty,
        !.anyPageThrew = TRUE,
        !.consecutiveFailures = IF r.consecutiveFailures < maxConsecutiveEmpty
                                THEN r.consecutiveFailures + 1
                                ELSE r.consecutiveFailures,
        !.endReason = IF r.consecutiveEmptyBatches + 1 >= maxConsecutiveEmpty
                      THEN "errors" ELSE r.endReason]

\* The catch block of an iteration (lines 700-707 and 503-509)
IterationThrows(r) ==
  [r EXCEPT
     !.consecutiveEmptyBatches = r.consecutiveEmptyBatches + 1,
     !.hasMoreData = r.consecutiveEmptyBatches + 1 < maxConsecutiveEmpty,
     !.anyPageThrew = TRUE,
     !.consecutiveFailures = IF r.consecutiveFailures < maxConsecutiveEmpty
                             THEN r.consecutiveFailures + 1
                             ELSE r.consecutiveFailures,
     !.endReason = IF r.consecutiveEmptyBatches + 1 >= maxConsecutiveEmpty
                   THEN "errors" ELSE r.endReason]

\* An iteration of the full fetch that persists the accumulation after
\* every page instead of once after the loop
FullPageWritingThrough(p, faults) ==
  /\ run[p].pc = "full"
  /\ FullLoopCondition(run[p])
  /\ \E rows \in {QueryRows(remote, run[p].batchSize, run[p].cursor)} :
       \E trust \in TrustChoices(rows, "trust" \in faults) :
         \E result \in {QueryResult(rows, run[p].batchSize, trust, now)} :
           \E r \in {Queried(run[p], run[p].cursor, rows, trust, result)} :
             /\ run' = [run EXCEPT ![p] = FullIteration(r, result)]
             /\ cache' = [cache EXCEPT !.data =
                            [users |-> run'[p].users,
                             totalCount |-> Len(run'[p].users),
                             lastUpdate |-> now]]
  /\ UNCHANGED <<memories, quotas, remote, now, runsStarted, cursorStoredAt, call>>

\* One iteration of the full fetch whose page query returns
FullPage(p, faults) ==
  /\ run[p].pc = "full"
  /\ FullLoopCondition(run[p])
  /\ \E rows \in {QueryRows(remote, run[p].batchSize, run[p].cursor)} :
       \E trust \in TrustChoices(rows, "trust" \in faults) :
         \E result \in {QueryResult(rows, run[p].batchSize, trust, now)} :
           \E r \in {Queried(run[p], run[p].cursor, rows, trust, result)} :
             run' = [run EXCEPT ![p] = FullIteration(r, result)]
  /\ UNCHANGED <<memories, quotas, remote, cache, now, runsStarted, cursorStoredAt, call>>

\* One iteration of the full fetch whose page query throws
FullPageThrows(p) ==
  /\ run[p].pc = "full"
  /\ FullLoopCondition(run[p])
  /\ run' = [run EXCEPT ![p] = IterationThrows(run[p])]
  /\ UNCHANGED <<memories, quotas, remote, cache, now, runsStarted, cursorStoredAt, call>>

\* ------------------------------------------ the incremental fetch loop
\* The loop condition at line 465
IncrementalLoopCondition(r) ==
  r.hasMoreData /\ Below(Len(r.users), r.maxUsers)

\* The filter at lines 484-486: the users of the page whose avatar is not
\* in the snapshot read at the start of the run
TrulyNewUsers(users, existingUsers) ==
  SelectSeq(users, LAMBDA user : ~HasAvatar(existingUsers, user.avatar))

\* The try block of one iteration of the incremental fetch (lines 467-499)
IncrementalIteration(r, result) ==
  LET users == result.users
      empty == Len(users) = 0
      consecutive == IF empty THEN r.consecutiveEmptyBatches + 1 ELSE 0
      newUsers == IF empty THEN r.users
                  ELSE r.users \o TrulyNewUsers(users, r.existingUsers)
      stopsEmpty == empty /\ consecutive >= maxConsecutiveEmpty
      stopsEnd == ~empty /\ result.nextCursor = Undefined
  IN [r EXCEPT
        !.consecutiveEmptyBatches = consecutive,
        !.users = newUsers,
        !.cursor = IF empty THEN r.cursor ELSE result.nextCursor,
        !.hasMoreData = ~(stopsEmpty \/ stopsEnd),
        !.endReason = IF stopsEmpty THEN "empty"
                      ELSE IF stopsEnd THEN "end"
                      ELSE IF ~Below(Len(newUsers), r.maxUsers) THEN "cap"
                      ELSE r.endReason]

\* One iteration of the incremental fetch whose page query returns
IncrementalPage(p, faults) ==
  /\ run[p].pc = "incremental"
  /\ IncrementalLoopCondition(run[p])
  /\ \E rows \in {QueryRows(remote, run[p].batchSize, run[p].cursor)} :
       \E trust \in TrustChoices(rows, "trust" \in faults) :
         \E result \in {QueryResult(rows, run[p].batchSize, trust, now)} :
           \E r \in {Queried(run[p], run[p].cursor, rows, trust, result)} :
             run' = [run EXCEPT ![p] = IncrementalIteration(r, result)]
  /\ UNCHANGED <<memories, quotas, remote, cache, now, runsStarted, cursorStoredAt, call>>

\* One iteration of the incremental fetch whose page query throws
IncrementalPageThrows(p) ==
  /\ run[p].pc = "incremental"
  /\ IncrementalLoopCondition(run[p])
  /\ run' = [run EXCEPT ![p] = IterationThrows(run[p])]
  /\ UNCHANGED <<memories, quotas, remote, cache, now, runsStarted, cursorStoredAt, call>>

\* ---------------------------------------------------- the cache writes
\* Which setCache call of a run throws, if any
WriteFailures(faults) ==
  IF "write" \in faults THEN {"none", "data", "lastUpdate", "cursor"} ELSE {"none"}

\* The CirclesUsersLastCursor record written at lines 517-525 and 728-735
CursorData(cursor, usersCount, clock) ==
  [blockNumber |-> cursor.blockNumber,
   transactionIndex |-> cursor.transactionIndex,
   logIndex |-> cursor.logIndex,
   timestamp |-> clock,
   usersCount |-> usersCount]

\* Whether the run stores its cursor (`if (cursor)` at lines 516 and 727,
\* reached when no earlier write threw)
CursorWritten(cursor, failure) == failure = "none" /\ cursor # Undefined

\* The cache after the setCache calls of a run, in their order (snapshot,
\* last update, cursor when the run has one), up to the one that throws
CacheAfterWrites(c, cacheData, lastUpdateData, cursor, usersCount, clock, failure) ==
  [data |-> IF failure = "data" THEN c.data ELSE cacheData,
   lastUpdate |-> IF failure \in {"data", "lastUpdate"} THEN c.lastUpdate
                  ELSE lastUpdateData,
   lastCursor |-> IF CursorWritten(cursor, failure)
                  THEN CursorData(cursor, usersCount, clock)
                  ELSE c.lastCursor]

\* What the run remembers of its writes: which one threw, and the users of
\* the snapshot it stored
Wrote(r, cacheData, failure) ==
  [r EXCEPT !.writeFailure = failure,
            !.written = IF failure = "data" THEN <<>> ELSE cacheData.users]

\* ------------------------------------------------ the end of a full fetch
\* A snapshot that holds the whole accumulation, whatever the cap
FullCacheDataUncapped(allUsers, maxUsers, clock) ==
  [users |-> allUsers, totalCount |-> Len(allUsers), lastUpdate |-> clock]

\* The snapshot built at lines 711-715
FullCacheData(allUsers, maxUsers, clock) ==
  [users |-> IF maxUsers = Infinity THEN allUsers ELSE Take(allUsers, maxUsers),
   totalCount |-> Len(allUsers),
   lastUpdate |-> clock]

\* Last-update metadata stamped one interval in the past
FullLastUpdateDataStale(allUsers, clock) ==
  [timestamp |-> clock - UPDATE_INTERVAL_MS, usersCount |-> Len(allUsers)]

\* The record built at lines 717-720
FullLastUpdateData(allUsers, clock) ==
  [timestamp |-> clock, usersCount |-> Len(allUsers)]

\* What refreshCirclesUsersCache returns for a fetch that returned
\* {success, count, newUsers, updatedUsers} in the given mode
RefreshResult(mode, success, count, hasCounts, newUsers, updatedUsers) ==
  [returned |-> TRUE, success |-> success, count |-> count, mode |-> mode,
   hasCounts |-> hasCounts, newUsers |-> newUsers, updatedUsers |-> updatedUsers,
   error |-> ~success]

\* The return value of fetchAndCacheCirclesUsers (lines 746 and 750), as
\* passed on by its caller (lines 438-444, 827-842)
FullResult(r, success) ==
  LET count == IF success THEN Len(r.users) ELSE 0
  IN RefreshResult(r.mode, success, count, r.viaIncremental,
                   IF r.viaIncremental THEN count ELSE 0, 0)

\* fetchAndCacheCirclesUsers after its loop: lines 710-751
FullFinish(p, faults) ==
  /\ run[p].pc = "full"
  /\ ~FullLoopCondition(run[p])
  /\ LET r == run[p]
     IN \E failure \in WriteFailures(faults) :
          /\ failure = "cursor" => r.cursor # Undefined
          /\ cache' = CacheAfterWrites(cache,
                         FullCacheData(r.users, r.maxUsers, now),
                         FullLastUpdateData(r.users, now),
                         r.cursor, Len(r.users), now, failure)
          /\ cursorStoredAt' = IF CursorWritten(r.cursor, failure)
                               THEN Len(remote) ELSE cursorStoredAt
          /\ run' = [run EXCEPT ![p] =
               Returned(Wrote(r, FullCacheData(r.users, r.maxUsers, now), failure),
                        FullResult(r, failure = "none"))]
  /\ UNCHANGED <<memories, quotas, remote, now, runsStarted, call>>

\* -------------------------------------------------- mergeAndUpdateUsers
\* existingUserMap.get(key): the Map is filled in the order of
\* existingUsers, so a key holds the last user that lower-cases to it.
\* 0 stands for a key that is not in the Map.
ExistingUserIndex(existingUsers, key) ==
  LET hits == {i \in 1..Len(existingUsers) : toLowerCase(existingUsers[i].avatar) = key}
  IN IF hits = {} THEN 0 ELSE CHOOSE i \in hits : \A j \in hits : j <= i

\* The condition at lines 576-580
NeedsUpdate(existingUser, newUser) ==
  \/ existingUser.incomingTrustCount # newUser.incomingTrustCount
  \/ existingUser.isVerified # newUser.isVerified

\* An update in place that copies the counts and the flag but leaves the
\* status as it was
UpdatedUserKeepingStatus(existingUser, newUser) ==
  [existingUser EXCEPT
     !.incomingTrustCount = newUser.incomingTrustCount,
     !.outgoingTrustCount = newUser.outgoingTrustCount,
     !.isVerified = newUser.isVerified,
     !.timestamp = newUser.timestamp]

\* The assignments at lines 582-586
UpdatedUser(existingUser, newUser) ==
  [existingUser EXCEPT
     !.incomingTrustCount = newUser.incomingTrustCount,
     !.outgoingTrustCount = newUser.outgoingTrustCount,
     !.isVerified = newUser.isVerified,
     !.status = newUser.status,
     !.timestamp = newUser.timestamp]

RECURSIVE UpdateExisting(_, _, _, _)
\* The loop at lines 574-593 from the i-th new user on: the existing users
\* after the updates in place, and the number of updates
UpdateExisting(existingUsers, newUsers, i, updatedCount) ==
  IF i > Len(newUsers)
  THEN [users |-> existingUsers, updatedCount |-> updatedCount]
  ELSE LET k == ExistingUserIndex(existingUsers, toLowerCase(newUsers[i].avatar))
       IN IF k # 0 /\ NeedsUpdate(existingUsers[k], newUsers[i])
          THEN UpdateExisting(
                 [existingUsers EXCEPT ![k] = UpdatedUser(existingUsers[k], newUsers[i])],
                 newUsers, i + 1, updatedCount + 1)
          ELSE UpdateExisting(existingUsers, newUsers, i + 1, updatedCount)

\* A merge that appends none of the new users
MergeTrulyNewDropped(existingUsers, newUsers) == <<>>

\* The filter at lines 596-598
MergeTrulyNew(existingUsers, newUsers) ==
  SelectSeq(newUsers,
            LAMBDA user : ExistingUserIndex(existingUsers, toLowerCase(user.avatar)) = 0)

\* A merge that stores the new users alone, without the users it was
\* given as existing
mergeAndUpdateUsersReplacing(existingUsers, newUsers) ==
  [mergedUsers |-> newUsers, updatedCount |-> 0]

\* mergeAndUpdateUsers up to its cache writes: the merged users (line 600)
\* and the number of updated users
mergeAndUpdateUsers(existingUsers, newUsers) ==
  LET updated == UpdateExisting(existingUsers, newUsers, 1, 0)
  IN [mergedUsers |-> updated.users \o MergeTrulyNew(existingUsers, newUsers),
      updatedCount |-> updated.updatedCount]

\* The snapshot built at lines 603-607
MergedCacheData(mergedUsers, clock) ==
  [users |-> mergedUsers, totalCount |-> Len(mergedUsers), lastUpdate |-> clock]

\* The record built at lines 609-612
MergedLastUpdateData(mergedUsers, clock) ==
  [timestamp |-> clock, usersCount |-> Len(mergedUsers)]

\* ----------------------------------------- the end of an incremental fetch
\* The return value of fetchAndCacheCirclesUsersIncremental (lines 538-553)
\* as passed on by refreshCirclesUsersCache
IncrementalResult(r, success, updatedCount) ==
  IF success
  THEN RefreshResult("incremental", TRUE, Len(r.existingUsers) + Len(r.users), TRUE,
                     Len(r.users), updatedCount)
  ELSE RefreshResult("incremental", FALSE, 0, TRUE, 0, 0)

\* fetchAndCacheCirclesUsersIncremental after its loop: lines 512-554
IncrementalFinish(p, faults) ==
  /\ run[p].pc = "incremental"
  /\ ~IncrementalLoopCondition(run[p])
  /\ \E r \in {run[p]}, failure \in WriteFailures(faults),
        merge \in {mergeAndUpdateUsers(run[p].existingUsers, run[p].users)} :
          /\ failure = "cursor" => r.cursor # Undefined
          /\ cache' = CacheAfterWrites(cache,
                         MergedCacheData(merge.mergedUsers, now),
                         MergedLastUpdateData(merge.mergedUsers, now),
                         r.cursor, Len(r.existingUsers) + Len(r.users), now, failure)
          /\ cursorStoredAt' = IF CursorWritten(r.cursor, failure)
                               THEN Len(remote) ELSE cursorStoredAt
          /\ run' = [run EXCEPT ![p] =
               Returned(Wrote(r, MergedCacheData(merge.mergedUsers, now), failure),
                        IncrementalResult(r, failure = "none", merge.updatedCount))]
  /\ UNCHANGED <<memories, quotas, remote, now, runsStarted, call>>

\* ------------------------------------------------------- checkUserStatus
\* The addresses a caller may ask about: the avatars, an upper-case
\* spelling of one, and an address that never registers

Max(a, b) == IF a >= b THEN a ELSE b

\* The value returned at lines 764-769 (and 787-792)
NotFound ==
  [found |-> FALSE, verified |-> FALSE, registered |-> FALSE, trustCount |-> 0]

\* A lookup that compares the avatars exactly, without lower-casing
checkUserStatusExact(users, walletAddress) ==
  LET hits == {i \in 1..Len(users) : users[i].avatar = walletAddress}
  IN IF hits = {} THEN NotFound
     ELSE LET user == users[CHOOSE i \in hits : \A j \in hits : i <= j]
          IN [found |-> TRUE, verified |-> user.isVerified, registered |-> TRUE,
              trustCount |-> user.incomingTrustCount,
              needsTrusts |-> IF user.isVerified THEN 0
                              ELSE Max(0, VERIFICATION_THRESHOLD - user.incomingTrustCount)]

\* checkUserStatus on the users getCachedCirclesUsers returned: `find`
\* gives the first user whose lower-cased avatar is the lower-cased address
checkUserStatus(users, walletAddress) ==
  LET hits == {i \in 1..Len(users) :
                 toLowerCase(users[i].avatar) = toLowerCase(walletAddress)}
  IN IF hits = {} THEN NotFound
     ELSE LET user == users[CHOOSE i \in hits : \A j \in hits : i <= j]
          IN [found |-> TRUE, verified |-> user.isVerified, registered |-> TRUE,
              trustCount |-> user.incomingTrustCount,
              needsTrusts |-> IF user.isVerified THEN 0
                              ELSE Max(0, VERIFICATION_THRESHOLD - user.incomingTrustCount)]

\* Other methods are called between refresh runs
BetweenRuns(p) == run[p].pc \in {"idle", "done"}

\* A call of checkUserStatus
CheckUserStatus(p, faults) ==
  /\ BetweenRuns(p)
  /\ \E walletAddress \in Avatars \cup {"0xBB", "0xcc"}, readOk \in ReadOutcomes(faults) :
       call' = [op |-> "checkUserStatus",
                arg |-> [walletAddress |-> walletAddress, readOk |-> readOk],
                result |-> checkUserStatus(getCachedCirclesUsers(cache, readOk),
                                           walletAddress)]
  /\ UNCHANGED <<memories, quotas, remote, cache, now, run, runsStarted, cursorStoredAt>>

\* ----------------------------------------------------------- needsUpdate
\* needsUpdate: true without last-update metadata (line 119) and when the
\* read throws (line 134), else whether the interval has passed (line 125)
needsUpdate(c, clock, readOk) ==
  IF ~readOk \/ c.lastUpdate = Undefined THEN TRUE
  ELSE clock - c.lastUpdate.timestamp >= UPDATE_INTERVAL_MS

\* A call of needsUpdate
NeedsUpdateCall(p, faults) ==
  /\ BetweenRuns(p)
  /\ \E readOk \in ReadOutcomes(faults) :
       call' = [op |-> "needsUpdate",
                arg |-> [readOk |-> readOk],
                result |-> [value |-> needsUpdate(cache, now, readOk)]]
  /\ UNCHANGED <<memories, quotas, remote, cache, now, run, runsStarted, cursorStoredAt>>

\* ----------------------------------------------------- clearUpdateCursor
\* A deletion that empties the whole cache
DeleteEverything(c) ==
  [data |-> Undefined, lastUpdate |-> Undefined, lastCursor |-> Undefined]

\* runtime.deleteCache('circles-users-last-cursor') at line 861
DeleteCursor(c) == [c EXCEPT !.lastCursor = Undefined]

\* clearUpdateCursor: deleteCache of the cursor key; when it throws, the
\* error is logged and the key stays (lines 863-865)
ClearUpdateCursor(p, faults) ==
  /\ BetweenRuns(p)
  /\ \E failure \in WriteFailures(faults) \cap {"none", "cursor"} :
       /\ cache' = IF failure = "none" THEN DeleteCursor(cache) ELSE cache
       /\ call' = [op |-> IF failure = "none" THEN "clearUpdateCursor"
                          ELSE "clearUpdateCursorFailed",
                   arg |-> Undefined, result |-> Undefined]
  /\ UNCHANGED <<memories, quotas, remote, now, run, runsStarted, cursorStoredAt>>

\* ------------------------------------------------- getCachedCirclesUsers
\* A call of getCachedCirclesUsers by a user of the service
GetCachedCirclesUsers(p, faults) ==
  /\ BetweenRuns(p)
  /\ \E readOk \in ReadOutcomes(faults) :
       call' = [op |-> "getCachedCirclesUsers",
                arg |-> [readOk |-> readOk],
                result |-> [users |-> getCachedCirclesUsers(cache, readOk)]]
  /\ UNCHANGED <<memories, quotas, remote, cache, now, run, runsStarted, cursorStoredAt>>

\* A call of getCachedCirclesUsers made while the refresh run of caller p
\* is between two of its awaited calls
GetCachedCirclesUsersDuringRun(p) ==
  /\ run[p].pc \in {"full", "incremental"}
  /\ call' = [op |-> "getCachedCirclesUsers",
              arg |-> [readOk |-> TRUE],
              result |-> [users |-> getCachedCirclesUsers(cache, TRUE)]]
  /\ UNCHANGED <<memories, quotas, remote, cache, now, run, runsStarted, cursorStoredAt>>

\* ---------------------------------------------------- getCacheStatistics
\* The number of verified users (line 894)
VerifiedCount(users) ==
  Cardinality({i \in 1..Len(users) : users[i].isVerified})

\* The value returned at lines 911-917 when a read threw; -1 stands for
\* the date null and for the age 'unknown'
NoStatistics ==
  [totalUsers |-> 0, verifiedUsers |-> 0, registeredUsers |-> 0,
   lastUpdate |-> -1, cacheAge |-> -1, lastCursor |-> Undefined]

\* getCacheStatistics: the counts of the snapshot, the time of the last
\* update with the age of the cache in hours (a tick is 24 hours), and the
\* position of the cursor when there is one (lines 887-909); the reads of
\* the last-update and the cursor keys are not guarded
getCacheStatistics(c, clock, usersReadOk, readOk) ==
  IF ~readOk THEN NoStatistics
  ELSE LET users == getCachedCirclesUsers(c, usersReadOk)
       IN [totalUsers |-> Len(users),
           verifiedUsers |-> VerifiedCount(users),
           registeredUsers |-> Len(users) - VerifiedCount(users),
           lastUpdate |-> IF c.lastUpdate # Undefined
                          THEN c.lastUpdate.timestamp ELSE -1,
           cacheAge |-> IF c.lastUpdate # Undefined
                        THEN 24 * (clock - c.lastUpdate.timestamp) ELSE -1,
           lastCursor |-> IF c.lastCursor # Undefined
                          THEN [position |-> StartingCursor(c.lastCursor),
                                timestamp |-> c.lastCursor.timestamp]
                          ELSE Undefined]

\* A call of getCacheStatistics
GetCacheStatistics(p, faults) ==
  /\ BetweenRuns(p)
  /\ \E usersReadOk \in ReadOutcomes(faults), readOk \in ReadOutcomes(faults) :
       call' = [op |-> "getCacheStatistics",
                arg |-> [usersReadOk |-> usersReadOk, readOk |-> readOk],
                result |-> getCacheStatistics(cache, now, usersReadOk, readOk)]
  /\ UNCHANGED <<memories, quotas, remote, cache, now, run, runsStarted, cursorStoredAt>>

\* ------------------------------------- ProposalQuotaService: operations
\* The QuotaInfo getQuotaInfo starts from: a new one when the table has no
\* record for the user, else the fields of the record (lines 112-132)
LoadedQuota(record, userId, clock) ==
  IF record = Undefined
  THEN [userId |-> userId, totalProposals |-> 0, dailyProposals |-> 0,
        lastProposalDate |-> 0, lastResetDate |-> clock]
  ELSE [userId |-> record.userId,
        totalProposals |-> OrDefault(record.totalProposals, 0),
        dailyProposals |-> OrDefault(record.dailyProposals, 0),
        lastProposalDate |-> OrDefault(record.lastProposalDate, 0),
        lastResetDate |-> OrDefault(record.lastResetDate, clock)]

\* A reset that waits until more than a day has passed
DailyResetAfterADay(quotaInfo, clock) ==
  IF clock - quotaInfo.lastResetDate > oneDayMs
  THEN [quotaInfo EXCEPT !.dailyProposals = 0, !.lastResetDate = clock]
  ELSE quotaInfo

\* The reset of the daily counter (lines 135-145)
DailyReset(quotaInfo, clock) ==
  IF clock - quotaInfo.lastResetDate >= oneDayMs
  THEN [quotaInfo EXCEPT !.dailyProposals = 0, !.lastResetDate = clock]
  ELSE quotaInfo

\* getQuotaInfo when its read of the table returns: the quota with the
\* remaining allowance of the user's class (lines 147-158); the allowance
\* of the other class is not set
getQuotaInfo(record, userId, isTrusted, clock, config) ==
  LET quotaInfo == DailyReset(LoadedQuota(record, userId, clock), clock)
  IN [quota |-> quotaInfo,
      remainingDaily |-> IF isTrusted
                         THEN Max(0, config.memberDailyLimit - quotaInfo.dailyProposals)
                         ELSE Undefined,
      remainingTotal |-> IF isTrusted THEN Undefined
                         ELSE Max(0, config.nonMemberTotalLimit - quotaInfo.totalProposals)]

\* A check that also lets a user with no allowance left send
canSendProposalAtLimit(quotaInfo, isTrusted) ==
  IF isTrusted THEN quotaInfo.remainingDaily >= 0 ELSE quotaInfo.remainingTotal >= 0

\* canSendProposal on the quota getQuotaInfo returned (lines 49-63)
canSendProposal(quotaInfo, isTrusted) ==
  IF isTrusted THEN quotaInfo.remainingDaily > 0 ELSE quotaInfo.remainingTotal > 0

\* The counters recordProposal saves (lines 81-86)
UpdatedQuota(quotaInfo, clock) ==
  [quotaInfo EXCEPT !.totalProposals = quotaInfo.totalProposals + 1,
                    !.dailyProposals = quotaInfo.dailyProposals + 1,
                    !.lastProposalDate = clock]

\* The fields saveQuotaInfo writes to the record of the user (lines
\* 178-184), by updateMemory or createMemory
QuotaContent(quotaInfo) ==
  [userId |-> quotaInfo.userId,
   totalProposals |-> quotaInfo.totalProposals,
   dailyProposals |-> quotaInfo.dailyProposals,
   lastProposalDate |-> quotaInfo.lastProposalDate,
   lastResetDate |-> quotaInfo.lastResetDate]

\* The class of a user as the caller states it
ClassOf(isTrusted) == IF isTrusted THEN "member" ELSE "nonMember"

\* A call of canSendProposal; when the read of the table throws it returns
\* false (line 66)
CanSendProposal(userId) ==
  /\ \E isTrusted \in BOOLEAN, readOk \in BOOLEAN :
       LET value == IF readOk
                    THEN canSendProposal(
                           getQuotaInfo(quotas.records[userId], userId, isTrusted,
                                        now, quotas.config),
                           isTrusted)
                    ELSE FALSE
       IN /\ call' = [op |-> "canSendProposal",
                      arg |-> [userId |-> userId, isTrusted |-> isTrusted,
                               ok |-> readOk, at |-> now],
                      result |-> [value |-> value]]
          /\ quotas' = [quotas EXCEPT !.allowed[userId] =
                          IF value THEN ClassOf(isTrusted) ELSE "none"]
  /\ UNCHANGED <<memories, remote, cache, now, run, runsStarted, cursorStoredAt>>

\* A call of recordProposal by a caller for whom canSendProposal has just
\* returned true, with the same class; when a read or the write of the
\* table throws, nothing is saved and the error is thrown on (line 93)
RecordProposal(userId) ==
  /\ quotas.allowed[userId] # "none"
  /\ LoadedQuota(quotas.records[userId], userId, now).totalProposals < MaxProposals
  /\ \E ok \in BOOLEAN :
       LET isTrusted == quotas.allowed[userId] = "member"
           quotaInfo == getQuotaInfo(quotas.records[userId], userId, isTrusted,
                                     now, quotas.config).quota
       IN /\ quotas' = [quotas EXCEPT
                          !.records[userId] =
                             IF ok THEN QuotaContent(UpdatedQuota(quotaInfo, now)) ELSE @,
                          !.allowed[userId] = "none",
                          !.recordedAs[userId] =
                             IF ok THEN @ \cup {ClassOf(isTrusted)} ELSE @]
          /\ call' = [op |-> "recordProposal",
                      arg |-> [userId |-> userId, isTrusted |-> isTrusted,
                               ok |-> ok, at |-> now],
                      result |-> Undefined]
  /\ UNCHANGED <<memories, remote, cache, now, run, runsStarted, cursorStoredAt>>

\* A call of resetUserQuota (lines 216-232), its write returning
ResetUserQuota(userId) ==
  /\ quotas' = [quotas EXCEPT
                  !.records[userId] =
                     [userId |-> userId, totalProposals |-> 0, dailyProposals |-> 0,
                      lastProposalDate |-> 0, lastResetDate |-> now],
                  !.recordedAs[userId] = {}]
  /\ call' = [op |-> "resetUserQuota",
              arg |-> [userId |-> userId, isTrusted |-> FALSE, ok |-> TRUE, at |-> now],
              result |-> Undefined]
  /\ UNCHANGED <<memories, remote, cache, now, run, runsStarted, cursorStoredAt>>

\* Twelve hours pass
QuotaTick ==
  /\ now < MaxQuotaTime
  /\ now' = now + 1
  /\ UNCHANGED <<memories, remote, cache, run, runsStarted, cursorStoredAt, call, quotas>>

\* A quota service just constructed, with or without a config of its own;
\* Date.now() is positive
QuotaInit ==
  /\ remote = <<>>
  /\ cache = [data |-> Undefined, lastUpdate |-> Undefined, lastCursor |-> Undefined]
  /\ now = 1
  /\ run = [p \in Callers |-> IdleRun]
  /\ runsStarted = 0
  /\ memories = NoMemories
  /\ cursorStoredAt = 0
  /\ call = NoCall
  /\ \E config \in {DefaultConfig,
                     [nonMemberTotalLimit |-> 1, memberDailyLimit |-> 2]} : quotas = QuotaStart(config)

\* The calls are made one after the other
QuotaNext ==
  \/ QuotaTick
  \/ \E userId \in Users :
       \/ CanSendProposal(userId)
       \/ RecordProposal(userId)
       \/ ResetUserQuota(userId)

QuotaSpec == QuotaInit /\ [][QuotaNext]_vars

\* ------------------------------------------ the query filter on its own
\* Ledger positions with every coordinate up to MaxCoord
Positions ==
  [blockNumber : 0..MaxCoord, transactionIndex : 0..MaxCoord, logIndex : 0..MaxCoord]

\* A row of the Avatars table at a position, as far as the filters read it
FilterRow(pos, type) ==
  [blockNumber |-> pos.blockNumber, transactionIndex |-> pos.transactionIndex,
   logIndex |-> pos.logIndex, type |-> type]

\* The filter list is about to be built for a cursor, or for none, and put
\* to a row
FilterInit ==
  /\ remote = <<>>
  /\ cache = [data |-> Undefined, lastUpdate |-> Undefined, lastCursor |-> Undefined]
  /\ now = 0
  /\ run = [p \in Callers |-> IdleRun]
  /\ runsStarted = 0
  /\ memories = NoMemories
  /\ cursorStoredAt = 0
  /\ quotas = QuotaStart(DefaultConfig)
  /\ \E pos \in Positions, cursor \in Positions \cup {Undefined},
        type \in {"CrcV2_RegisterHuman", "CrcV2_RegisterGroup"} :
       call = [op |-> "filter",
               arg |-> [row |-> FilterRow(pos, type), cursor |-> cursor],
               result |-> Undefined]

\* The remote applies the Filter list of the request to the row
ApplyFilter ==
  /\ call.op = "filter"
  /\ call.result = Undefined
  /\ call' = [call EXCEPT !.result =
                [accepted |-> QueryFilter(call.arg.row, call.arg.cursor)]]
  /\ UNCHANGED <<memories, quotas, remote, cache, now, run, runsStarted, cursorStoredAt>>

FilterNext == ApplyFilter

FilterSpec == FilterInit /\ [][FilterNext]_vars

\* ------------------------------------------- getTrustCounts on its own
\* The orders in which the result may list its columns, and none at all
ColumnOrders ==
  {c \in [1..3 -> {"truster", "trustee", "timestamp"}] :
     \A i, j \in 1..3 : i # j => c[i] # c[j]} \cup {Undefined}

\* The trust relations a result may hold for avatar a: a self-trust, a
\* trust received and a trust given
TrustPairs(a) ==
  {[truster |-> a, trustee |-> a],
   [truster |-> "0xt", trustee |-> a],
   [truster |-> a, trustee |-> "0xt"]}

\* The cell of a trust relation under a column
CellOf(pair, column) ==
  IF column = "truster" THEN pair.truster
  ELSE IF column = "trustee" THEN pair.trustee ELSE "t"

\* The row of a trust relation as the result gives it: an array in the
\* order of the columns (the requested order when none are listed), or a
\* keyed object
TrustRow(pair, columns, array) ==
  IF array
  THEN ArrayRow([i \in 1..3 |->
                  CellOf(pair, IF columns = Undefined THEN TrustColumns[i]
                               ELSE columns[i])])
  ELSE KeyedRow(pair.truster, pair.trustee)

\* What the remote is asked to answer with: columns, a row format, and up
\* to MaxTrustRows trust relations
TrustResults(a) ==
  [columns : ColumnOrders, array : BOOLEAN,
   pairs : UNION {[1..n -> TrustPairs(a)] : n \in 0..MaxTrustRows}]

\* The response of the remote for such a result
ResponseOf(t) ==
  TrustResponse(t.columns,
                [i \in 1..Len(t.pairs) |-> TrustRow(t.pairs[i], t.columns, t.array)])

\* getTrustCounts is about to be called with these two results coming
TrustInit ==
  /\ remote = <<>>
  /\ cache = [data |-> Undefined, lastUpdate |-> Undefined, lastCursor |-> Undefined]
  /\ now = 0
  /\ run = [p \in Callers |-> IdleRun]
  /\ runsStarted = 0
  /\ memories = NoMemories
  /\ cursorStoredAt = 0
  /\ quotas = QuotaStart(DefaultConfig)
  /\ \E incoming \in TrustResults("0xaa"), outgoing \in TrustResults("0xaa") :
       /\ incoming.array = outgoing.array
       /\ call = [op |-> "getTrustCounts",
                  arg |-> [incoming |-> incoming, outgoing |-> outgoing],
                  result |-> Undefined]

\* The call of getTrustCounts
GetTrustCounts ==
  /\ call.op = "getTrustCounts"
  /\ call.result = Undefined
  /\ call' = [call EXCEPT !.result =
                getTrustCounts(ResponseOf(call.arg.incoming),
                               ResponseOf(call.arg.outgoing))]
  /\ UNCHANGED <<memories, quotas, remote, cache, now, run, runsStarted, cursorStoredAt>>

TrustNext == GetTrustCounts

TrustSpec == TrustInit /\ [][TrustNext]_vars

\* ------------------------------------------- mergeAndUpdateUsers alone
\* The user objects a page query can give: an avatar, the time of its row
\* and the counts of one of the trust answers
ObservedUsers ==
  UNION {{CirclesUser([avatar |-> a, timestamp |-> k],
                       getTrustCounts(t.incoming, t.outgoing), 0) :
            k \in 1..MaxStamp, t \in TrustScenarios(a)} : a \in Avatars}

\* The lists of at most MaxMergeLen user objects
UserLists ==
  UNION {[1..n -> ObservedUsers] : n \in 0..MaxMergeLen}

\* mergeAndUpdateUsers is about to be called with a snapshot and the users
\* an incremental run has accumulated, none of which has the avatar of a
\* user of the snapshot (lines 484-486)
MergeInit ==
  /\ remote = <<>>
  /\ cache = [data |-> Undefined, lastUpdate |-> Undefined, lastCursor |-> Undefined]
  /\ now = 0
  /\ run = [p \in Callers |-> IdleRun]
  /\ runsStarted = 0
  /\ memories = NoMemories
  /\ cursorStoredAt = 0
  /\ quotas = QuotaStart(DefaultConfig)
  /\ \E existingUsers \in UserLists, newUsers \in UserLists :
       /\ TrulyNewUsers(newUsers, existingUsers) = newUsers
       /\ call = [op |-> "merge",
                  arg |-> [existingUsers |-> existingUsers, newUsers |-> newUsers],
                  result |-> <<>>]

\* mergeAndUpdateUsers is called with the list: the first time over the
\* snapshot, then again over the users the call before it merged
MergeOnce ==
  /\ call.op = "merge"
  /\ Len(call.result) < 2
  /\ \E existingUsers \in {IF call.result = <<>> THEN call.arg.existingUsers
                            ELSE call.result[Len(call.result)].mergedUsers} :
       call' = [call EXCEPT !.result =
                  Append(call.result,
                         [mergedUsers |->
                            mergeAndUpdateUsers(existingUsers, call.arg.newUsers).mergedUsers,
                          updatedCount |->
                            mergeAndUpdateUsers(existingUsers, call.arg.newUsers).updatedCount,
                          added |-> MergeTrulyNew(existingUsers, call.arg.newUsers)])]
  /\ UNCHANGED <<memories, quotas, remote, cache, now, run, runsStarted, cursorStoredAt>>

MergeNext == MergeOnce

MergeSpec == MergeInit /\ [][MergeNext]_vars

\* ------------------------------------------------- the 'matches' table
\* runtime.agentId, which invitation matches carry as user2Id
agentId == "agent"

\* A stored match: the fields of its content the handlers read and write.
\* 0 stands for a time that is not set.  Every stored memory has an id;
\* a match is named by its place in the table.
Match(user1Id, user2Id, status) ==
  [user1Id |-> user1Id, user2Id |-> user2Id, status |-> status,
   verificationRequestedAt |-> 0,
   verificationCompleted |-> FALSE, verificationCompletedAt |-> 0]

\* The matches other parts of the plugin have stored before the handlers
\* run: between the two users, and of each user with the agent
StoredMatches ==
  {Match(pair[1], pair[2], status) :
     pair \in {<<"u1", "u2">>, <<"u1", agentId>>, <<"u2", agentId>>},
     status \in {"group_onboarding", "circles_verification_needed", "proposal_sent"}}

MatchTables == UNION {[1..n -> StoredMatches] : n \in 0..MaxMatches}

Min(a, b) == IF a < b THEN a ELSE b

\* runtime.getMemories({tableName: 'matches', count}): the places of the
\* memories it returns, at most count of them; the handler does not say
\* which, so any count of them may come back
Selections(table, count) ==
  {S \in SUBSET (1..Len(table)) : Cardinality(S) = Min(count, Len(table))}

\* The filter of the handlers (lines 611-617 of the action, 172-178 of the
\* evaluator): the match is one of the user and has the status
MatchOfUserIn(matchData, entityId, status) ==
  /\ matchData.user1Id = entityId \/ matchData.user2Id = entityId
  /\ matchData.status = status

\* ---------------------------------- the CIRCLES_VERIFICATION action
\* matchesToUpdate at lines 611-617, among the memories returned
matchesToUpdate(table, selection, entityId) ==
  {i \in selection : MatchOfUserIn(table[i], entityId, "group_onboarding")}

\* updatedMatchContent at lines 641-645
RequestedMatchContent(matchData, clock) ==
  [matchData EXCEPT !.status = "circles_verification_needed",
                    !.verificationRequestedAt = clock]

\* The handler of the action for a message of entityId (lines 600-684),
\* its reads and writes returning
CirclesVerificationHandler(entityId) ==
  /\ \E selection \in Selections(memories.matches, MatchesCount) :
       \E toUpdate \in {matchesToUpdate(memories.matches, selection, entityId)} :
         memories' = [memories EXCEPT
            !.matches = [i \in DOMAIN memories.matches |->
                           IF i \in toUpdate
                           THEN RequestedMatchContent(memories.matches[i], now)
                           ELSE memories.matches[i]],
            !.handled = [op |-> "CIRCLES_VERIFICATION", entityId |-> entityId,
                         success |-> toUpdate # {},
                         updated |-> Cardinality(toUpdate)]]
  /\ UNCHANGED <<remote, cache, now, run, runsStarted, cursorStoredAt, call, quotas>>

\* ------------------------------------- the verification evaluator
\* String.prototype.trim on the strings of the model
trim(s) ==
  IF s = " " THEN "" ELSE IF s = " x" THEN "x"
  ELSE IF s = " metri:b" THEN "metri:b" ELSE s

\* What parseKeyValueXml may give for the model's answer: metriAccount is
\* a string ("" also stands for an absent one, which line 110 treats the
\* same), socialLinks is the answer's list already split at its commas
\* (absent and empty give no link)
Extractions ==
  [metriAccount : {"", " ", "metri:a", " metri:b"},
   socialLinks : {<<>>, <<" x", "">>, <<"x", "y">>}]

\* existingVerificationData when the user has no record (lines 59-63)
NoVerificationData ==
  [metriAccount |-> "", socialLinks |-> <<>>, hasMinimumInfo |-> FALSE]

\* existingVerificationData (lines 59-67)
ExistingVerificationData(record) ==
  IF record = Undefined THEN NoVerificationData ELSE record

\* newMetriAccount at line 110
newMetriAccount(extractionParsed, existing) ==
  IF trim(extractionParsed.metriAccount) # ""
  THEN trim(extractionParsed.metriAccount)
  ELSE existing.metriAccount

\* newSocialLinks at lines 114-116: each link trimmed, the empty dropped
newSocialLinks(extractionParsed) ==
  SelectSeq([i \in 1..Len(extractionParsed.socialLinks) |->
               trim(extractionParsed.socialLinks[i])],
            LAMBDA link : link # "")

RECURSIVE Distinct(_)
\* [...new Set(list)]: the list without the later copies of an element
Distinct(list) ==
  IF list = <<>> THEN <<>>
  ELSE LET front == Distinct(SubSeq(list, 1, Len(list) - 1))
           last == list[Len(list)]
       IN IF \E i \in 1..Len(front) : front[i] = last THEN front
          ELSE Append(front, last)

\* allSocialLinks at line 118
allSocialLinks(extractionParsed, existing) ==
  Distinct(existing.socialLinks \o newSocialLinks(extractionParsed))

\* updatedVerificationData at lines 121-131
updatedVerificationData(extractionParsed, existing, clock) ==
  [metriAccount |-> newMetriAccount(extractionParsed, existing),
   socialLinks |-> allSocialLinks(extractionParsed, existing),
   hasMinimumInfo |-> /\ newMetriAccount(extractionParsed, existing) # ""
                      /\ Len(allSocialLinks(extractionParsed, existing)) > 0,
   lastUpdated |-> clock]

\* A test that is true whenever the record is complete, also when it was
\* complete before
CompletesNowOrBefore(updated, existing) == updated.hasMinimumInfo

\* The test at line 166
CompletesNow(updated, existing) ==
  updated.hasMinimumInfo /\ ~existing.hasMinimumInfo

\* matchToUpdate at lines 172-178: the first of the memories returned that
\* passes the filter, as a set of at most one place
matchToUpdate(table, selection, entityId) ==
  LET found == {i \in selection :
                  MatchOfUserIn(table[i], entityId, "circles_verification_needed")}
  IN IF found = {} THEN {}
     ELSE {CHOOSE i \in found : \A j \in found : i <= j}

\* updatedMatchContent at lines 182-187
FilledMatchContent(matchData, clock) ==
  [matchData EXCEPT !.status = "circles_verification_filled",
                    !.verificationCompleted = TRUE,
                    !.verificationCompletedAt = clock]

\* The handler of the evaluator for a message of entityId (lines 47-202),
\* its reads and writes returning; it returns nothing.  When the answer
\* of the model does not parse it returns at line 104.
CirclesVerificationEvaluatorHandler(entityId) ==
  /\ \/ memories' = [memories EXCEPT
                       !.handled = [op |-> "CIRCLES_VERIFICATION_EVALUATOR",
                                    entityId |-> entityId,
                                    success |-> FALSE, updated |-> 0]]
     \/ \E extractionParsed \in Extractions,
           existing \in {ExistingVerificationData(memories.verification[entityId])} :
          \E updated \in {updatedVerificationData(extractionParsed, existing, now)} :
            \E selection \in IF CompletesNow(updated, existing)
                             THEN Selections(memories.matches, MatchesCount)
                             ELSE {{}} :
              \E toUpdate \in {IF CompletesNow(updated, existing)
                               THEN matchToUpdate(memories.matches, selection, entityId)
                               ELSE {}} :
                memories' = [memories EXCEPT
                   !.verification[entityId] = updated,
                   !.matches = [i \in DOMAIN memories.matches |->
                                  IF i \in toUpdate
                                  THEN FilledMatchContent(memories.matches[i], now)
                                  ELSE memories.matches[i]],
                   !.handled = [op |-> "CIRCLES_VERIFICATION_EVALUATOR",
                                entityId |-> entityId,
                                success |-> TRUE,
                                updated |-> Cardinality(toUpdate)]]
  /\ UNCHANGED <<remote, cache, now, run, runsStarted, cursorStoredAt, call, quotas>>

\* ------------------------------------------------ the handlers alone
\* The tables as other parts of the plugin left them, before a handler
\* runs: a table of the given matches, and no verification record
HandlersInit(stored) ==
  /\ remote = <<>>
  /\ cache = [data |-> Undefined, lastUpdate |-> Undefined, lastCursor |-> Undefined]
  /\ now = 1
  /\ run = [p \in Callers |-> IdleRun]
  /\ runsStarted = 0
  /\ cursorStoredAt = 0
  /\ call = NoCall
  /\ quotas = QuotaStart(DefaultConfig)
  /\ \E table \in MatchTables :
       /\ \A i \in 1..Len(table) : table[i] \in stored
       /\ memories = [NoMemories EXCEPT !.matches = table]

\* Users ask for verification; the handlers run one after the other
ActionNext == \E entityId \in Users : CirclesVerificationHandler(entityId)

ActionSpec == HandlersInit(StoredMatches) /\ [][ActionNext]_vars

\* Users in the verification flow send messages; the evaluator runs after
\* each of them
EvaluatorNext ==
  \E entityId \in Users : CirclesVerificationEvaluatorHandler(entityId)

\* The matches the evaluator starts from: those waiting for verification,
\* and one in another status
WaitingMatches ==
  {m \in StoredMatches :
     \/ m.status = "circles_verification_needed"
     \/ m = Match("u1", "u2", "proposal_sent")}

EvaluatorSpec == HandlersInit(WaitingMatches) /\ [][EvaluatorNext]_vars

\* ------------------------------------------------------ specifications
\* The steps of caller p when the faults of the given classes may happen
RunStep(p, faults) ==
  \/ RefreshStartsFull(p, faults)
  \/ RefreshStartsIncremental(p, faults)
  \/ FullPage(p, faults)
  \/ FullPageThrows(p)
  \/ FullFinish(p, faults)
  \/ IncrementalPage(p, faults)
  \/ IncrementalPageThrows(p)
  \/ IncrementalFinish(p, faults)

\* One caller; page queries may fail, the cache store and the trust queries
\* do not
Next ==
  \/ RemoteRegister
  \/ RunStep(1, {})

Spec == Init /\ [][Next]_vars

\* The loop and the tail of a run: every awaited call returns or throws,
\* so a run that has begun keeps taking steps
Continue(p) ==
  \/ FullPage(p, {})
  \/ FullPageThrows(p)
  \/ FullFinish(p, {})
  \/ IncrementalPage(p, {})
  \/ IncrementalPageThrows(p)
  \/ IncrementalFinish(p, {})

FairSpec == Spec /\ WF_vars(Continue(1))

\* The service as its caller uses it: refresh runs, and between them time
\* passes and the other methods are called; a read of the cache made by
\* checkUserStatus or needsUpdate may throw
ServiceNext ==
  \/ Next
  \/ Tick
  \/ CheckUserStatus(1, {"read"})
  \/ NeedsUpdateCall(1, {"read"})
  \/ ClearUpdateCursor(1, {})

ServiceSpec == Init /\ [][ServiceNext]_vars

\* Refresh runs in which a trust query may fail
TrustFaultNext ==
  \/ RemoteRegister
  \/ RunStep(1, {"trust"})

TrustFaultSpec == Init /\ [][TrustFaultNext]_vars

\* Refresh runs, and between them calls of every other method of the
\* service; their cache reads and the deletion of the cursor may throw
MethodsNext ==
  \/ Next
  \/ NeedsUpdateCall(1, {"read"})
  \/ GetCachedCirclesUsers(1, {"read"})
  \/ CheckUserStatus(1, {"read"})
  \/ GetCacheStatistics(1, {"read"})
  \/ ClearUpdateCursor(1, {"write"})

MethodsSpec == Init /\ [][MethodsNext]_vars

\* ------------------------------------------------ two callers, no lock
\* The service takes no lock: two callers may each have a run under way
TwoCallers == {1, 2}

\* A service started over a cache that an earlier full fetch left: one
\* registration in the stream, fetched in a page larger than the stream,
\* so a snapshot of one user and no cursor are cached
ConcurrentInit ==
  /\ remote = <<[avatar |-> "0xaa", type |-> "CrcV2_RegisterHuman"]>>
  /\ \E trust \in TrustChoices(<<RowOf(remote, 1)>>, FALSE) :
       LET allUsers == QueryResult(<<RowOf(remote, 1)>>, MaxBatch, trust, 0).users
       IN cache = CacheAfterWrites(
                    [data |-> Undefined, lastUpdate |-> Undefined,
                     lastCursor |-> Undefined],
                    FullCacheData(allUsers, Infinity, 0),
                    FullLastUpdateData(allUsers, 0),
                    Undefined, Len(allUsers), 0, "none")
  /\ now = 0
  /\ run = [p \in TwoCallers |-> IdleRun]
  /\ runsStarted = 0
  /\ memories = NoMemories
  /\ cursorStoredAt = 0
  /\ call = NoCall
  /\ quotas = QuotaStart(DefaultConfig)

\* The steps of caller p, who calls refreshCirclesUsersCache in any mode
\* with the largest page size and no cap
ConcurrentStep(p) ==
  \/ /\ RefreshStartsFull(p, {}) \/ RefreshStartsIncremental(p, {})
     /\ run'[p].batchSize = MaxBatch
     /\ run'[p].maxUsers = Infinity
  \/ Continue(p)

ConcurrentNext ==
  \/ RemoteRegister
  \/ ConcurrentStep(1)
  \/ ConcurrentStep(2)

ConcurrentSpec == ConcurrentInit /\ [][ConcurrentNext]_vars

\* Refresh runs in which a write to the cache may throw
WriteFaultNext ==
  \/ RemoteRegister
  \/ RunStep(1, {"write"})

WriteFaultSpec == Init /\ [][WriteFaultNext]_vars

\* Refresh runs in which a read of the cache may throw
ReadFaultNext ==
  \/ RemoteRegister
  \/ RefreshReadThrows(1)
  \/ RunStep(1, {"read"})

ReadFaultSpec == Init /\ [][ReadFaultNext]_vars

\* Refresh runs with a reader of the snapshot, who calls
\* getCachedCirclesUsers between the runs and at any point during a run
ReaderNext ==
  \/ Next
  \/ GetCachedCirclesUsers(1, {})
  \/ GetCachedCirclesUsersDuringRun(1)

ReaderSpec == Init /\ [][ReaderNext]_vars

\* ------------------------------------------------------------ properties
Running(p) == run[p].pc \in {"full", "incremental"}

\* The step in which a full or an incremental run of caller p returns
Finishes(p) == Running(p) /\ run'[p].pc = "done"

\* The avatars of a sequence of users, lower-cased
LowerAvatars(users) == {toLowerCase(users[i].avatar) : i \in 1..Len(users)}

Records(users) == {users[i] : i \in 1..Len(users)}

\* The registration rows of the stream, as the type filter selects them
HumanRows == {r \in RemoteRows(remote) : r.type = "CrcV2_RegisterHuman"}

\* C1: the snapshot under 'circles-users-data' never holds two records
\* whose avatars are equal after lower-casing.
C1_NoCaseFoldedDuplicates ==
  cache.data # Undefined =>
    \A i, j \in 1..Len(cache.data.users) :
       i # j => toLowerCase(cache.data.users[i].avatar)
                  # toLowerCase(cache.data.users[j].avatar)

\* C2: a run in which no page query returned and whose loop was ended by
\* the tolerance of consecutive page failures returns success = false with
\* an error.
C2_PersistentFailureReturnsError ==
  [][(Finishes(1) /\ ~run[1].anyPageOk /\ run[1].endReason = "errors")
       => (~run'[1].result.success /\ run'[1].result.error)]_vars

\* C3: a run that ends with 3 consecutive failed page queries while a good
\* snapshot is cached leaves the records of the snapshot as they were.
C3_FailedRunKeepsSnapshot ==
  [][(/\ Finishes(1)
      /\ run[1].consecutiveFailures >= maxConsecutiveEmpty
      /\ run[1].preData # Undefined
      /\ Len(run[1].preData.users) > 0)
       => (/\ cache'.data # Undefined
           /\ Records(cache'.data.users) = Records(run[1].preData.users))]_vars

\* The rows observed by the run of caller p that carry the avatar of the
\* k-th user of the snapshot the run read
Matching(p, k) ==
  {i \in 1..Len(run[p].observed) :
     run[p].observed[i].avatar = run[p].existingUsers[k].avatar}

\* The k-th user of the snapshot was observed with a trust count or a
\* verified flag that differs from the cached one
Stale(p, k) ==
  \E i \in Matching(p, k) : NeedsUpdate(run[p].existingUsers[k], run[p].observed[i])

\* C4: when an incremental run returns, every cached record that the run
\* observed with a different incoming count or verified flag has been
\* overwritten in place with the counts and status of an observation of
\* it, and is counted in updatedUsers.
C4_ObservedChangeUpdatesRecord ==
  [][(run[1].pc = "incremental" /\ run'[1].pc = "done" /\ run'[1].result.success)
       => \A k \in 1..Len(run[1].existingUsers) :
            Stale(1, k) =>
              /\ \E i \in Matching(1, k) :
                   cache'.data.users[k] =
                     UpdatedUser(run[1].existingUsers[k], run[1].observed[i])
              /\ run'[1].result.updatedUsers >= 1]_vars

\* C5: an incremental run never lowers totalCount, and keeps unchanged
\* every record of the pre-run snapshot whose avatar it did not observe.
C5_IncrementalNeverRegresses ==
  [][(/\ run[1].pc = "incremental" /\ run'[1].pc = "done" /\ run'[1].result.success
      /\ run[1].preData # Undefined)
       => (/\ cache'.data.totalCount >= run[1].preData.totalCount
           /\ \A u \in Records(run[1].preData.users) :
                toLowerCase(u.avatar) \notin LowerAvatars(run[1].observed)
                  => u \in Records(cache'.data.users))]_vars

\* C6: when an incremental run that started from the persisted cursor
\* returns, the participant of every registration that appeared in the
\* stream after that cursor was stored is in the snapshot.
C6_ResumedRunFetchesNewRegistrations ==
  [][(/\ run[1].pc = "incremental" /\ run'[1].pc = "done" /\ run'[1].result.success
      /\ run[1].startCursor # Undefined
      /\ ~run[1].anyPageThrew)
       => \A r \in HumanRows :
            (r.timestamp > cursorStoredAt /\ PosLess(run[1].startCursor, PosOf(r)))
              => toLowerCase(r.avatar) \in LowerAvatars(cache'.data.users)]_vars

\* The rows the run of caller p has paged over when its cursor is c: those
\* older than the cursor it began with, down to and including c
PagedOver(p, c) ==
  {r \in HumanRows :
     /\ run[p].startCursor # Undefined => PosLess(PosOf(r), run[p].startCursor)
     /\ ~PosLess(PosOf(r), c)}

\* C7: when a run stopped by its user cap stores a cursor, the participant
\* of every row it paged over, down to the stored position, is in the
\* snapshot.
C7_CapStopSkipsNoRow ==
  [][(/\ Finishes(1) /\ run'[1].result.success
      /\ run[1].endReason = "cap"
      /\ run[1].cursor # Undefined
      /\ ~run[1].anyPageThrew)
       => \A r \in PagedOver(1, run[1].cursor) :
            toLowerCase(r.avatar) \in LowerAvatars(cache'.data.users)]_vars

\* C8: totalCount of the snapshot equals the number of its records.
C8_TotalCountIsSize ==
  cache.data # Undefined => cache.data.totalCount = Len(cache.data.users)

\* C9: the nextCursor derived from a page is strictly less, in the
\* lexicographic (blockNumber, transactionIndex, logIndex) order, than the
\* cursor the page was requested with, and no row of a page requested with
\* a cursor lies at or after that cursor.
C9_CursorStrictlyDecreases ==
  \A p \in Callers :
    LET q == run[p].lastQuery
    IN (q # Undefined /\ q.cursor # Undefined) =>
         /\ q.nextCursor # Undefined => PosLess(q.nextCursor, q.cursor)
         /\ \A i \in 1..Len(q.rows) : PosLess(q.rows[i], q.cursor)

\* A page requested with a cursor came back full, and gave a next cursor
C9_Witness ==
  /\ run[1].lastQuery # Undefined
  /\ run[1].lastQuery.cursor # Undefined
  /\ Len(run[1].lastQuery.rows) > 0
  /\ run[1].lastQuery.nextCursor # Undefined

\* C10: every full and every incremental run that has begun eventually
\* returns a result, whatever pages fail or come back empty, and its loop
\* was ended by the end of the stream, the user cap, or 3 consecutive
\* empty or failed pages.
C10_EveryRunTerminates ==
  Running(1) ~> (/\ run[1].pc = "done"
                 /\ run[1].result.returned
                 /\ run[1].endReason \in {"empty", "end", "cap", "errors"})

\* A run returned after failed page queries ended its loop, having
\* collected users from a page before them
C10_Witness ==
  /\ run[1].pc = "done"
  /\ run[1].result.returned
  /\ run[1].endReason = "errors"
  /\ run[1].result.count > 0

\* The participants of the stream are distinct: no two registration rows
\* carry avatars that are equal after lower-casing
DistinctParticipants ==
  \A r, q \in HumanRows :
    r # q => toLowerCase(r.avatar) # toLowerCase(q.avatar)

\* C11: a full fetch that starts from an empty cache, meets no remote
\* failure and has a cap not below the number N of distinct participants
\* of the stream returns success with count N and writes a snapshot of
\* exactly those N participants.
C11_FullFetchCollectsAll ==
  [][(/\ run[1].pc = "full" /\ run'[1].pc = "done"
      /\ cache.data = Undefined /\ cache.lastCursor = Undefined
      /\ ~run[1].anyPageThrew
      /\ DistinctParticipants
      /\ (run[1].maxUsers = Infinity \/ Cardinality(HumanRows) <= run[1].maxUsers))
       => (/\ run'[1].result.success
           /\ run'[1].result.count = Cardinality(HumanRows)
           /\ cache'.data # Undefined
           /\ Len(cache'.data.users) = Cardinality(HumanRows)
           /\ cache'.data.totalCount = Cardinality(HumanRows)
           /\ {cache'.data.users[i].avatar : i \in 1..Len(cache'.data.users)}
                 = {r.avatar : r \in HumanRows})]_vars

\* The first run returned: a full fetch in pages of one row over a stream
\* of two distinct participants
C11_Witness ==
  /\ runsStarted = 1
  /\ run[1].pc = "done"
  /\ run[1].result.success
  /\ run[1].result.count = 2
  /\ Cardinality(HumanRows) = 2
  /\ DistinctParticipants
  /\ run[1].endReason = "empty"

\* C12: an incremental run whose loop is ended by consecutive empty pages
\* returns success without an error, reports the new users it accumulated,
\* and has them in the snapshot it writes.
C12_EmptyPagesEndIncrementalRun ==
  [][(run[1].pc = "incremental" /\ run'[1].pc = "done" /\ run[1].endReason = "empty")
       => (/\ run'[1].result.success
           /\ ~run'[1].result.error
           /\ run'[1].result.newUsers = Len(run[1].users)
           /\ \A i \in 1..Len(run[1].users) :
                /\ toLowerCase(run[1].users[i].avatar) \in LowerAvatars(cache'.data.users)
                /\ toLowerCase(run[1].users[i].avatar)
                       \notin LowerAvatars(run[1].existingUsers)
                     => run[1].users[i] \in Records(cache'.data.users))]_vars

\* An incremental run returned after empty pages ended its loop, with a
\* new user accumulated before them
C12_Witness ==
  /\ run[1].pc = "done"
  /\ run[1].result.mode = "incremental"
  /\ run[1].endReason = "empty"
  /\ run[1].result.success
  /\ run[1].result.newUsers > 0
  /\ \E i \in 1..Len(cache.data.users) : cache.data.users[i].avatar = "0xbb"

\* isVerified and status agree with the incoming count of the record
Consistent(u) ==
  /\ u.isVerified = (u.incomingTrustCount >= VERIFICATION_THRESHOLD)
  /\ u.status = IF u.isVerified THEN "verified" ELSE "registered"

\* C13: every record of the cached snapshot has isVerified equal to
\* (incomingTrustCount >= 3) and status 'verified' exactly when isVerified.
C13_StatusConsistent ==
  cache.data # Undefined =>
    \A i \in 1..Len(cache.data.users) : Consistent(cache.data.users[i])

\* A record of the snapshot was updated in place by a merge: it is
\* verified, and carries the timestamp of a row whose avatar differs from
\* its own in letter case
C13_Witness ==
  /\ cache.data # Undefined
  /\ \E i \in 1..Len(cache.data.users) :
       LET u == cache.data.users[i]
       IN /\ u.isVerified
          /\ u.timestamp \in 1..Len(remote)
          /\ remote[u.timestamp].avatar # u.avatar

\* C20: for every successful run, the count it returns and the usersCount
\* stored with the cursor it persists equal the number of records of the
\* snapshot it wrote.
C20_CountsMatchSnapshot ==
  [][(Finishes(1) /\ run'[1].result.success)
       => (/\ run'[1].result.count = Len(cache'.data.users)
           /\ run[1].cursor # Undefined
                => cache'.lastCursor.usersCount = Len(cache'.data.users))]_vars

\* The step in which a refresh called with mode 'auto' enters a fetch
StartsAuto(p) ==
  /\ run[p].pc \in {"idle", "done"}
  /\ Running(p)'
  /\ run'[p].requested = "auto"

\* A persisted cursor exists and the cached snapshot is not empty
CursorAndSnapshot ==
  /\ cache.lastCursor # Undefined
  /\ cache.data # Undefined
  /\ Len(cache.data.users) > 0

\* C16: a refresh in mode 'auto' runs the incremental fetch if and only if
\* a persisted cursor exists and the cached snapshot is not empty, and
\* runs the full fetch otherwise; the mode it returns names the fetch it
\* ran.
C16_AutoModeChoice ==
  [][/\ StartsAuto(1) =>
          /\ run'[1].pc = "incremental" <=> CursorAndSnapshot
          /\ run'[1].pc = "full" <=> ~CursorAndSnapshot
          /\ run'[1].pc = "incremental" => run'[1].cursor = StartingCursor(cache.lastCursor)
     /\ (Finishes(1) /\ run[1].requested = "auto") =>
          run'[1].result.mode = run[1].pc]_vars

\* A refresh in mode 'auto' chose the incremental fetch and has fetched a
\* page from the persisted cursor
C16_Witness ==
  /\ run[1].pc = "incremental"
  /\ run[1].requested = "auto"
  /\ run[1].startCursor # Undefined
  /\ run[1].lastQuery # Undefined

\* The users checkUserStatus reads for the last call: those of the
\* snapshot, or none when the cache is empty or the read threw
UsersRead ==
  IF call.arg.readOk /\ cache.data # Undefined THEN cache.data.users ELSE <<>>

\* The records of the users read whose avatar is the address of the last
\* call, letter case aside
MatchingRecords ==
  {i \in 1..Len(UsersRead) :
     toLowerCase(UsersRead[i].avatar) = toLowerCase(call.arg.walletAddress)}

\* C14: checkUserStatus matches the address case-insensitively; with no
\* matching record (an empty or unreadable cache included) it returns
\* found, verified and registered false and trustCount 0; with a match it
\* returns found and registered true, the incoming count and the flag of a
\* matching record, and needsTrusts = 0 if verified, else
\* max(0, 3 - incomingTrustCount).
C14_CheckUserStatus ==
  call.op = "checkUserStatus" =>
    IF MatchingRecords = {}
    THEN call.result = [found |-> FALSE, verified |-> FALSE,
                        registered |-> FALSE, trustCount |-> 0]
    ELSE \E i \in MatchingRecords :
           /\ call.result.found
           /\ call.result.registered
           /\ call.result.trustCount = UsersRead[i].incomingTrustCount
           /\ call.result.verified = UsersRead[i].isVerified
           /\ call.result.needsTrusts =
                IF UsersRead[i].isVerified THEN 0
                ELSE IF UsersRead[i].incomingTrustCount >= 3 THEN 0
                ELSE 3 - UsersRead[i].incomingTrustCount

\* checkUserStatus found a record that is not verified under an address
\* spelled in another letter case than its avatar
C14_Witness ==
  /\ call.op = "checkUserStatus"
  /\ call.result.found
  /\ ~call.result.verified
  /\ call.result.needsTrusts = 1
  /\ \A i \in 1..Len(cache.data.users) :
       cache.data.users[i].avatar # call.arg.walletAddress

\* C15: needsUpdate returns true when no last-update metadata is cached,
\* and false when it is called right after a refresh that returned
\* success = true (the read of the metadata returning).
C15_NeedsUpdate ==
  (call.op = "needsUpdate" /\ call.arg.readOk) =>
    /\ cache.lastUpdate = Undefined => call.result.value
    /\ (/\ run[1].pc = "done" /\ run[1].result.success
        /\ run[1].returnedAt = now)
         => ~call.result.value

\* needsUpdate returned false right after a successful refresh that ran
\* after time had passed
C15_Witness ==
  /\ call.op = "needsUpdate"
  /\ call.arg.readOk
  /\ ~call.result.value
  /\ run[1].pc = "done" /\ run[1].result.success
  /\ run[1].returnedAt = now
  /\ now > 0

\* C17: the first refresh after clearUpdateCursor pages from the beginning
\* of the stream with no cursor, and the snapshot it writes is the result
\* of a full fetch: every record of it was fetched by this run.
C17_RefreshAfterClearIsFull ==
  [][(Finishes(1) /\ run[1].afterClear /\ run'[1].result.success)
       => (/\ run[1].startCursor = Undefined
           /\ cache'.data # Undefined
           /\ Records(cache'.data.users) \subseteq Records(run[1].observed))]_vars

\* The trust relations of a result whose truster differs from their trustee
NonSelfTrusts(t) ==
  Cardinality({i \in 1..Len(t.pairs) : t.pairs[i].truster # t.pairs[i].trustee})

\* C18: for any column order and either row format, getTrustCounts counts
\* in incoming and in outgoing exactly the returned rows whose truster
\* differs from their trustee.
C18_SelfTrustsExcluded ==
  (call.op = "getTrustCounts" /\ call.result # Undefined) =>
    /\ call.result.incoming = NonSelfTrusts(call.arg.incoming)
    /\ call.result.outgoing = NonSelfTrusts(call.arg.outgoing)

\* C19: when a trust query fails for a participant, getTrustCounts gives
\* {incoming: 0, outgoing: 0} and the page still yields one record for
\* every row: the participant is recorded as registered with zero counts,
\* and the other rows carry the counts of their own trust queries.
C19_TrustFailureKeepsRow ==
  \A p \in Callers :
    LET q == run[p].lastQuery
    IN q # Undefined =>
         /\ Len(q.users) = Len(q.rows)
         /\ \A i \in 1..Len(q.rows) :
              /\ \E r \in RemoteRows(remote) :
                   PosOf(r) = q.rows[i] /\ r.avatar = q.users[i].avatar
              /\ q.failed[i] =>
                   /\ q.users[i].incomingTrustCount = 0
                   /\ q.users[i].outgoingTrustCount = 0
                   /\ ~q.users[i].isVerified
                   /\ q.users[i].status = "registered"
              /\ ~q.failed[i] => q.users[i].incomingTrustCount > 0

\* A page of two rows came back with the trust query of one of them failed
C19_Witness ==
  /\ run[1].lastQuery # Undefined
  /\ Len(run[1].lastQuery.rows) = 2
  /\ run[1].lastQuery.failed[1]
  /\ ~run[1].lastQuery.failed[2]
  /\ run[1].lastQuery.users[2].isVerified

\* The ledger position of the last row the run of caller p fetched: the
\* row of the last user its queries returned (a user carries the timestamp
\* of its row, which is the index of the event in the stream)
LastRowFetched(p) ==
  PositionOf(run[p].observed[Len(run[p].observed)].timestamp)

\* C21: after every successful run that fetched a page with rows, a cursor
\* is stored under 'circles-users-last-cursor', and it is the position of
\* the last row of the last such page.
C21_CursorIsLastRowFetched ==
  [][(Finishes(1) /\ run'[1].result.success /\ Len(run[1].observed) > 0)
       => (/\ cache'.lastCursor # Undefined
           /\ StartingCursor(cache'.lastCursor) = LastRowFetched(1))]_vars

\* The records of a snapshot; none when the key is absent
SnapshotRecords(data) == IF data = Undefined THEN {} ELSE Records(data.users)

\* C22: a run one of whose cache writes throws (the snapshot, the
\* last-update or the cursor write) returns success = false, and the
\* cached snapshot holds the same records as before the run.
C22_FailedWriteKeepsSnapshot ==
  [][(Finishes(1) /\ run'[1].writeFailure # "none")
       => (/\ ~run'[1].result.success
           /\ (cache'.data = Undefined) = (run[1].preData = Undefined)
           /\ SnapshotRecords(cache'.data) = SnapshotRecords(run[1].preData))]_vars

\* C23: a run whose snapshot and last-update writes return and whose
\* cursor write throws returns success = true with the count of the
\* snapshot it stored.
C23_CursorWriteBestEffort ==
  [][(Finishes(1) /\ run'[1].writeFailure = "cursor")
       => (/\ run'[1].result.success
           /\ run'[1].result.count = Len(cache'.data.users))]_vars

\* The step in which caller p calls refreshCirclesUsersCache in mode 'auto'
\* or 'incremental' and a read of the cursor or of the snapshot throws
StartsWithFailedRead(p) ==
  /\ run[p].pc \in {"idle", "done"}
  /\ runsStarted' = runsStarted + 1
  /\ \/ run'[p].cursorReadFailed
     \/ run'[p].snapshotReadFailed
     \/ run'[p].autoSnapshotReadFailed

\* C24: a refresh in mode 'auto' or 'incremental' whose read of the cursor
\* or of the snapshot throws goes on as with no cache: it enters the full
\* fetch, which pages from the beginning of the stream, and it neither
\* returns a failure nor merges into an empty set.
C24_ReadFailureLeadsToFullFetch ==
  [][StartsWithFailedRead(1)
       => (/\ run'[1].pc = "full"
           /\ run'[1].cursor = Undefined)]_vars

\* The methods that only read
ReadOnlyOps ==
  {"needsUpdate", "getCachedCirclesUsers", "checkUserStatus", "getCacheStatistics"}

\* C25: needsUpdate, getCachedCirclesUsers, checkUserStatus and
\* getCacheStatistics leave the three cache keys unchanged and make no
\* remote query; clearUpdateCursor deletes the cursor key only; and the
\* snapshot and last-update keys change only in the step in which a full
\* or an incremental fetch ends, the cursor key only there or in
\* clearUpdateCursor.
C25_OnlyFetchesWrite ==
  [][/\ (call' # call /\ call'.op \in ReadOnlyOps)
          => (cache' = cache /\ run' = run /\ remote' = remote)
     /\ (call' # call /\ call'.op = "clearUpdateCursor")
          => (/\ cache'.lastCursor = Undefined
              /\ cache'.data = cache.data
              /\ cache'.lastUpdate = cache.lastUpdate
              /\ run' = run /\ remote' = remote)
     /\ (cache'.data # cache.data \/ cache'.lastUpdate # cache.lastUpdate)
          => Finishes(1)
     /\ cache'.lastCursor # cache.lastCursor
          => (Finishes(1) \/ call'.op = "clearUpdateCursor")]_vars

\* clearUpdateCursor deleted a cursor that a run had stored, and the
\* snapshot and the last-update metadata of that run are still cached
C25_Witness ==
  /\ call.op = "clearUpdateCursor"
  /\ cursorStoredAt > 0
  /\ cache.lastCursor = Undefined
  /\ cache.lastUpdate # Undefined
  /\ cache.data # Undefined
  /\ Len(cache.data.users) > 0

\* C26: nothing keeps two runs apart.  When two runs are serialized (each
\* began while no other run was under way), an incremental run that
\* returns success keeps in the snapshot every participant the run before
\* it reported as stored; when they interleave, a state is reachable in
\* which the snapshot lacks one (C26_Witness).
C26_SerializedRunsKeepRecords ==
  [][\A p \in TwoCallers : \A q \in TwoCallers \ {p} :
       (/\ run[p].pc = "incremental" /\ run'[p].pc = "done"
        /\ run'[p].result.success /\ ~run[p].overlapped
        /\ run[q].pc = "done" /\ run[q].result.success /\ ~run[q].overlapped)
         => LowerAvatars(run[q].written) \subseteq LowerAvatars(cache'.data.users)]_vars

\* Two incremental runs that interleaved have both returned success; each
\* merged into the snapshot it had read, and the snapshot of the one that
\* wrote last lacks a participant that the other one stored and counted
C26_Witness ==
  /\ \A p \in TwoCallers :
       /\ run[p].pc = "done" /\ run[p].result.success
       /\ run[p].result.mode = "incremental"
       /\ Len(run[p].written) > 0
  /\ \E p \in TwoCallers : run[p].overlapped
  /\ \E p \in TwoCallers :
       /\ run[p].result.count = Len(run[p].written)
       /\ ~(LowerAvatars(run[p].written) \subseteq LowerAvatars(cache.data.users))

C28_FilterIsStrictlyBelowCursor ==
  (call.op = "filter" /\ call.result # Undefined) =>
    LET row == call.arg.row
        c == call.arg.cursor
    IN call.result.accepted =
         (/\ row.type = "CrcV2_RegisterHuman"
          /\ (c # Undefined => PosLess(PosOf(row), c)))

\* The filter accepted a registration of the transaction of the cursor,
\* with a lower log index
C28_Witness ==
  /\ call.op = "filter"
  /\ call.result # Undefined
  /\ call.result.accepted
  /\ call.arg.cursor # Undefined
  /\ call.arg.row.blockNumber = call.arg.cursor.blockNumber
  /\ call.arg.row.transactionIndex = call.arg.cursor.transactionIndex
  /\ call.arg.row.logIndex < call.arg.cursor.logIndex

\* C29: queryRegisteredUsersWithTrustData returns as nextCursor the
\* position of the last row of the page when the page holds exactly limit
\* rows, and no nextCursor when it holds fewer, none included.
C29_NextCursorOnlyOnFullPage ==
  \A p \in Callers :
    LET q == run[p].lastQuery
    IN q # Undefined =>
         IF Len(q.rows) = run[p].batchSize
         THEN q.nextCursor = q.rows[Len(q.rows)]
         ELSE q.nextCursor = Undefined

\* A query with limit 2 returned a page of one row, and no next cursor
C29_Witness ==
  /\ run[1].lastQuery # Undefined
  /\ run[1].batchSize = 2
  /\ Len(run[1].lastQuery.rows) = 1
  /\ run[1].lastQuery.nextCursor = Undefined

\* The step in which a page query of the run of caller p returns
\* and the page adds no user to the accumulation
FullPageAddsNothing(p) ==
  /\ run[p].pc = "full" /\ run'[p].pc = "full"
  /\ run'[p] # run[p]
  /\ run'[p].consecutiveFailures = 0
  /\ Len(run'[p].users) = Len(run[p].users)

\* C30: in a full fetch every page that adds no new participant counts
\* toward the limit of consecutive empty pages, whether it has no rows or
\* only rows of participants already accumulated, and the third such page
\* in a row ends the paging.
C30_DuplicatePageCountsAsEmpty ==
  [][FullPageAddsNothing(1)
       => (/\ run'[1].consecutiveEmptyBatches = run[1].consecutiveEmptyBatches + 1
           /\ run'[1].consecutiveEmptyBatches >= maxConsecutiveEmpty
                => ~run'[1].hasMoreData)]_vars

\* The step in which a page query of the run of caller p returns
PageReturns(p) ==
  /\ run[p].pc \in {"full", "incremental"}
  /\ run'[p].pc = run[p].pc
  /\ run'[p] # run[p]
  /\ run'[p].consecutiveFailures = 0
  /\ run'[p].lastQuery # Undefined

\* The avatars getTrustCounts was called for by the last query of a run
\* (line 365: once for each row of the page)
Enriched(r) ==
  {r.lastQuery.users[i].avatar : i \in 1..Len(r.lastQuery.users)}

\* C31: in a full fetch a row whose avatar is already in the accumulation
\* of the run is dropped before enrichment, so no trust-count query is
\* issued for an avatar the run has already accumulated.
C31_DuplicatesDroppedBeforeEnrichment ==
  [][(PageReturns(1) /\ run[1].pc = "full")
       => \A a \in Enriched(run'[1]) : ~HasAvatar(run[1].users, a)]_vars

\* Whether the paging loop of a run under way has ended
PagingEnded(r) ==
  IF r.pc = "full" THEN ~FullLoopCondition(r) ELSE ~IncrementalLoopCondition(r)

\* C32: a refresh run writes the snapshot key once, after its paging has
\* ended and never while pages are fetched; a reader calling
\* getCachedCirclesUsers during the run gets the snapshot as it was before
\* the run, and a reader calling it after the run gets the snapshot the
\* run wrote.
C32_SnapshotWrittenOnceAfterPaging ==
  [][/\ cache'.data # cache.data
          => (Running(1) /\ PagingEnded(run[1]) /\ run'[1].pc = "done")
     /\ (call' # call /\ call'.op = "getCachedCirclesUsers")
          => call'.result.users =
               IF Running(1) THEN getCachedCirclesUsers([data |-> run[1].preData], TRUE)
               ELSE IF run[1].pc = "done" THEN run[1].written
               ELSE <<>>]_vars

\* A reader called getCachedCirclesUsers during an incremental run that
\* had already accumulated a registration the snapshot does not hold
C32_Witness ==
  /\ run[1].pc = "incremental"
  /\ call.op = "getCachedCirclesUsers"
  /\ Len(run[1].users) > 0
  /\ Len(call.result.users) > 0
  /\ ~HasAvatar(call.result.users, run[1].users[1].avatar)

\* The step in which caller p begins an incremental fetch while the cache
\* holds no cursor or no user
StartsIncrementalWithoutCursorOrSnapshot(p) ==
  /\ run[p].pc \in {"idle", "done"}
  /\ runsStarted' = runsStarted + 1
  /\ run'[p].mode = "incremental"
  /\ \/ cache.lastCursor = Undefined
     \/ Len(getCachedCirclesUsers(cache, TRUE)) = 0

\* C33: an incremental fetch that starts with no cursor persisted or with
\* no snapshot performs a full fetch instead: it enters the full fetch
\* paging from the beginning of the stream, and it reports newUsers equal
\* to the count it returns and updatedUsers = 0.
C33_IncrementalWithoutCursorOrSnapshotIsFull ==
  [][/\ StartsIncrementalWithoutCursorOrSnapshot(1)
          => (run'[1].pc = "full" /\ run'[1].cursor = Undefined)
     /\ (/\ Finishes(1)
         /\ run[1].mode = "incremental"
         /\ \/ run[1].startCursor = Undefined
            \/ Len(getCachedCirclesUsers([data |-> run[1].preData], TRUE)) = 0)
          => (/\ run'[1].result.newUsers = run'[1].result.count
              /\ run'[1].result.updatedUsers = 0)]_vars

\* C34: the incremental merge is idempotent: merging a list of observed
\* users into a snapshot and then merging the same list again gives the
\* users of the first merge, updates none and adds none.
C34_MergeIsIdempotent ==
  (call.op = "merge" /\ Len(call.result) = 2)
    => (/\ call.result[2].mergedUsers = call.result[1].mergedUsers
        /\ call.result[2].updatedCount = 0
        /\ call.result[2].added = <<>>)

\* The step in which a page query of the run of caller p throws
PageThrows(p) ==
  /\ run[p].pc \in {"full", "incremental"}
  /\ run'[p].pc = run[p].pc
  /\ run'[p] # run[p]
  /\ run'[p].consecutiveFailures # 0

\* The rows of the page a query of the run would give now
PageRows(r) == QueryRows(remote, r.batchSize, r.cursor)

\* C35: a page query that throws does not advance the cursor of the run
\* and adds nothing to its accumulation; the next query of the run is
\* issued with the cursor of the failed one; and a cursor persisted by a
\* run that ended on failures lies above every row of the failed page.
C35_FailedPageKeepsCursor ==
  [][/\ PageThrows(1)
          => (/\ run'[1].cursor = run[1].cursor
              /\ run'[1].users = run[1].users)
     /\ PageReturns(1) => run'[1].lastQuery.cursor = run[1].cursor
     /\ (Finishes(1) /\ run[1].endReason = "errors" /\ run[1].cursor # Undefined)
          => (/\ StartingCursor(cache'.lastCursor) = run[1].cursor
              /\ \A i \in 1..Len(PageRows(run[1])) :
                   PosLess(PosOf(PageRows(run[1])[i]), cache'.lastCursor))]_vars

\* A run whose page queries threw after a page had given it a cursor has
\* returned, and its cursor is persisted while a row below it is unfetched
C35_Witness ==
  /\ run[1].pc = "done"
  /\ run[1].endReason = "errors"
  /\ runsStarted = 1
  /\ cache.lastCursor # Undefined
  /\ \E k \in 1..Len(remote) : PosLess(PosOf(RowOf(remote, k)), cache.lastCursor)

\* C36: the snapshot a full fetch with a finite cap maxUsers persists
\* holds at most maxUsers records, also when the last page pushed the
\* accumulation of the run above the cap.
C36_SnapshotWithinCap ==
  [][(Finishes(1) /\ run[1].pc = "full" /\ run[1].maxUsers # Infinity)
       => Len(cache'.data.users) <= run[1].maxUsers]_vars

\* A full fetch has returned a count above the number of records of the
\* snapshot it wrote: its last page had pushed the accumulation above the cap
C36_Witness ==
  /\ run[1].pc = "done"
  /\ run[1].result.mode = "full"
  /\ run[1].endReason = "cap"
  /\ Len(run[1].written) > 0
  /\ run[1].result.count > Len(run[1].written)
  /\ cache.data.users = run[1].written

\* C37: a successful incremental run never moves a persisted cursor to a
\* more recent position: it leaves the position as it is or replaces it
\* with one that is smaller in the lexicographic order of (blockNumber,
\* transactionIndex, logIndex), and it never removes the cursor.
C37_IncrementalCursorNeverMovesUp ==
  [][(/\ Finishes(1)
      /\ run[1].pc = "incremental"
      /\ run'[1].result.success
      /\ cache.lastCursor # Undefined)
       => (/\ cache'.lastCursor # Undefined
           /\ ~PosLess(cache.lastCursor, cache'.lastCursor))]_vars

\* An incremental run that began at the persisted cursor has ended its
\* paging at a smaller position, which it is about to persist
C37_Witness ==
  /\ run[1].pc = "incremental"
  /\ ~IncrementalLoopCondition(run[1])
  /\ cache.lastCursor # Undefined
  /\ run[1].startCursor # Undefined
  /\ run[1].cursor # Undefined
  /\ PosLess(run[1].cursor, run[1].startCursor)

\* The stored record of a user holds as many proposals of the day as a
\* member may send in one
AtDailyLimit(userId) ==
  /\ quotas.records[userId] # Undefined
  /\ quotas.records[userId].dailyProposals >= quotas.config.memberDailyLimit

\* C38: a member whose record has reached memberDailyLimit is refused by
\* canSendProposal at any time less than 24 hours after lastResetDate and
\* allowed at any time 24 hours or more after it; the proposal recorded
\* then restarts dailyProposals at 1 with lastResetDate at that time, and
\* totalProposals keeps counting: the daily reset never resets it.
C38_DailyResetAfterADay ==
  [][\A userId \in Users :
       /\ (/\ call'.op = "canSendProposal"
           /\ call'.arg.userId = userId
           /\ call'.arg.isTrusted
           /\ call'.arg.ok
           /\ AtDailyLimit(userId))
            => (call'.result.value
                  <=> call'.arg.at - quotas.records[userId].lastResetDate >= oneDayMs)
       /\ (/\ call'.op = "recordProposal"
           /\ quotas.records[userId] # Undefined
           /\ quotas'.records[userId] # quotas.records[userId])
            => LET old == quotas.records[userId]
                   new == quotas'.records[userId]
                   reset == now - old.lastResetDate >= oneDayMs
               IN /\ new.totalProposals = old.totalProposals + 1
                  /\ new.dailyProposals = IF reset THEN 1 ELSE old.dailyProposals + 1
                  /\ new.lastResetDate = IF reset THEN now ELSE old.lastResetDate]_vars

\* A member at the daily limit was allowed again a day after the last
\* reset and has recorded the proposal: the daily counter restarted while
\* the total went on
C38_Witness ==
  \E userId \in Users :
    /\ call.op = "recordProposal"
    /\ call.arg.userId = userId
    /\ call.arg.isTrusted
    /\ call.arg.ok
    /\ quotas.records[userId] # Undefined
    /\ quotas.records[userId].dailyProposals = 1
    /\ quotas.records[userId].totalProposals > quotas.config.memberDailyLimit
    /\ quotas.records[userId].lastResetDate = call.arg.at
    /\ quotas.recordedAs[userId] = {"member"}

\* The step in which a handler of the match flow has run for a message
HandlerRan(op) ==
  /\ memories' # memories
  /\ memories'.handled.op = op

\* C39: the handler of CIRCLES_VERIFICATION moves every match of the
\* requesting user that is in status 'group_onboarding' to
\* 'circles_verification_needed' and changes no other match; when the
\* user has no such match it returns success=false and updates nothing.
C39_MovesEveryOnboardingMatch ==
  [][HandlerRan("CIRCLES_VERIFICATION")
       => LET entityId == memories'.handled.entityId
              before == memories.matches
              after == memories'.matches
              mine == {i \in DOMAIN before :
                         MatchOfUserIn(before[i], entityId, "group_onboarding")}
          IN /\ DOMAIN after = DOMAIN before
             /\ \A i \in mine : after[i].status = "circles_verification_needed"
             /\ \A i \in DOMAIN before \ mine : after[i] = before[i]
             /\ mine = {} => (~memories'.handled.success /\ after = before)]_vars

\* The links of a stored verification record, as a set
LinksOf(record) ==
  {record.socialLinks[i] : i \in 1..Len(record.socialLinks)}

\* C40: the evaluator moves a match from 'circles_verification_needed' to
\* 'circles_verification_filled' only in the handler run in which
\* hasMinimumInfo of the user's record goes from false to true, with a
\* non-empty Metri account and at least one social link, and it changes at
\* most one match in a run; a stored record never loses a social link,
\* its Metri account is never replaced by an empty one, and hasMinimumInfo
\* never goes back to false.
C40_FilledOnlyOnCompletion ==
  [][HandlerRan("CIRCLES_VERIFICATION_EVALUATOR")
       => LET entityId == memories'.handled.entityId
              before == memories.matches
              after == memories'.matches
              changed == {i \in DOMAIN before : after[i] # before[i]}
              old == memories.verification[entityId]
              new == memories'.verification[entityId]
          IN /\ DOMAIN after = DOMAIN before
             /\ Cardinality(changed) <= 1
             /\ \A i \in changed :
                  /\ MatchOfUserIn(before[i], entityId, "circles_verification_needed")
                  /\ after[i].status = "circles_verification_filled"
                  /\ old # Undefined => ~old.hasMinimumInfo
                  /\ new # Undefined
                  /\ new.hasMinimumInfo
                  /\ new.metriAccount # ""
                  /\ Len(new.socialLinks) >= 1
             /\ \A u \in Users :
                  memories.verification[u] # Undefined
                    => /\ memories'.verification[u] # Undefined
                       /\ LinksOf(memories.verification[u])
                            \subseteq LinksOf(memories'.verification[u])
                       /\ memories.verification[u].metriAccount # ""
                            => memories'.verification[u].metriAccount # ""
                       /\ memories.verification[u].hasMinimumInfo
                            => memories'.verification[u].hasMinimumInfo]_vars

\* The evaluator has moved one match of a user whose record became
\* complete in that run, while another match of the user still waits
C40_Witness ==
  /\ memories.handled.op = "CIRCLES_VERIFICATION_EVALUATOR"
  /\ memories.handled.updated = 1
  /\ memories.verification[memories.handled.entityId] # Undefined
  /\ memories.verification[memories.handled.entityId].hasMinimumInfo
  /\ \E i, j \in DOMAIN memories.matches :
       /\ memories.matches[i].status = "circles_verification_filled"
       /\ MatchOfUserIn(memories.matches[j], memories.handled.entityId,
                        "circles_verification_needed")

====
